---- MODULE Spec2Model ----
(***************************************************************************)
(* Model of NpmApiClient (api-client): the token lifecycle kept by         *)
(* ensureToken, the request path of request(), the readonly guard          *)
(* assertWritable and the per-resource methods that call them.             *)
(*                                                                         *)
(* An async method is modelled by one action per stretch of code between   *)
(* two awaits of network I/O: the call itself (up to the first fetch), the *)
(* continuation after the token response, the continuation after the       *)
(* resource response.  The remote service is the environment: it chooses   *)
(* every response.  Time is a counter that only grows.                     *)
(*                                                                         *)
(* Around the client: the two entry points (cli, index) that read the      *)
(* environment, construct one client and drive it, the CLI by one command  *)
(* line, the tool server by one tool call after the other.                 *)
(*                                                                         *)
(* Specifications: Spec (a library caller awaiting each call),             *)
(* ConcurrentSpec (two calls pending on one client), InterleavedSpec (the  *)
(* same with the return of ensureToken and the fetch of request() as two   *)
(* steps), AnsweringSpec (a remote that eventually answers, with weak      *)
(* fairness), TwoClientSpec (two instances), ProcessSpec (one run of the   *)
(* CLI, the start of the server), ServerSpec (the server handling tool     *)
(* calls).                                                                 *)
(***************************************************************************)
EXTENDS Integers, Sequences, FiniteSets, TLC

(* ------------------------------ bounds --------------------------------- *)

\* Last instant of the clock; the clock starts at 0.
MaxTime == 2

\* Resource ids passed to get/update/delete/enable/disable/renew: 1..MaxId.
MaxId == 1

\* Number of calls that can be pending on the one client at the same time.
MaxCalls == 2

Calls == 1 .. MaxCalls

Ids == 1 .. MaxId

(* --------------------- JavaScript values used by the client ------------ *)

\* The initial value of the token field.
NULL == "<null>"

\* The value of a property a JSON object does not have.
UNDEFINED == "<undefined>"

\* Truthy with the empty string counted as a value.
TruthyWhenEmpty(v) == v \notin {NULL, UNDEFINED}

\* JavaScript truthiness of a string-or-null value, as tested by `this.token &&`.
Truthy(v) == v \notin {NULL, UNDEFINED, ""}

\* The initial value of the tokenExpires field.
NullDate == [kind |-> "null", t |-> 0]

\* new Date(s) for a string that is no date: a Date object, truthy, whose
\* comparisons are all false.
InvalidDate == [kind |-> "invalid", t |-> 0]

DateAt(t) == [kind |-> "time", t |-> t]

\* DateGT with the instant of the expiry still counted as before it.
DateGE(d, t) == d.kind = "time" /\ d.t >= t

\* `d > new Date()` at instant t: false for an Invalid Date.
DateGT(d, t) == d.kind = "time" /\ d.t > t

\* Instants the remote service may name as a token's expiry.
ExpiryTimes == 1 .. (MaxTime + 1)

\* The strings the remote service may send as `expires`.
ExpiresTexts == {ToString(t) : t \in ExpiryTimes} \cup {"soon"}

\* new Date(data.expires): the instant the string names, else an Invalid Date.
ParseDate(s) ==
  IF \E t \in ExpiryTimes : ToString(t) = s
    THEN DateAt(CHOOSE t \in ExpiryTimes : ToString(t) = s)
    ELSE InvalidDate

(* ------------------------------ the wire ------------------------------- *)

\* Token strings the remote service may send as `token`.
WireTokens == {"", "t1", "t2"}

\* The text of a token response body.
TokenJson(t, e) == "{\"token\":\"" \o t \o "\",\"expires\":\"" \o e \o "\"}"

TokenTexts == {TokenJson(t, e) : t \in WireTokens, e \in ExpiresTexts}

\* Bodies the token endpoint may answer with: a token object, a JSON text
\* without the two properties, a text that is no JSON.
TokenBodies == TokenTexts \cup {"[]", "Not Found"}

\* Bodies a resource endpoint or the health endpoint may answer with: JSON
\* texts, texts that are no JSON, nothing.
ResourceBodies == {"", "Not Found", "[]"}

BodyTexts == TokenBodies \cup ResourceBodies

Statuses == {200, 204, 401, 404, 500}

\* A fetch either rejects (transport error) or resolves with a response.
TransportError == [net |-> "rejected", status |-> 0, body |-> ""]

HttpResponse(s, b) == [net |-> "resolved", status |-> s, body |-> b]

\* The statuses an endpoint answers with: the token endpoint 200 or 500, a
\* resource endpoint and the health endpoint 200, 204, 401 or 404.
StatusesOf(kind) == IF kind = "token" THEN {200, 500} ELSE Statuses \ {500}

\* What may come back for a request of the given kind.
\* The bodies an endpoint sends with a status.  The token endpoint: any of its
\* bodies with 200, no token object with an error status.  A resource endpoint
\* and the health endpoint: a JSON text or a text that is no JSON with 200,
\* nothing or a JSON text with 204, an error text with 401, an error text or
\* nothing with 404.
BodiesOf(kind, s) ==
  IF kind = "token"
    THEN IF s = 200 THEN TokenBodies ELSE TokenBodies \ TokenTexts
    ELSE CASE s = 200 -> ResourceBodies \ {""}
           [] s = 204 -> ResourceBodies \ {"Not Found"}
           [] s = 401 -> {"Not Found"}
           [] OTHER -> ResourceBodies \ {"[]"}

ResponsesTo(kind) ==
  {TransportError} \cup
    UNION {{HttpResponse(s, b) : b \in BodiesOf(kind, s)} : s \in StatusesOf(kind)}

NoResponse == [net |-> "none", status |-> 0, body |-> ""]

\* Ok with the status never looked at.
OkUnchecked(r) == r.status >= 0

\* response.ok
Ok(r) == r.status >= 200 /\ r.status <= 299

\* The value of a JSON text; `token` and `expires` are the properties the
\* client reads from it.
JsonValue(type, t, e) == [valid |-> TRUE, type |-> type, token |-> t, expires |-> e]

JsonSyntaxError == [valid |-> FALSE, type |-> "none", token |-> UNDEFINED, expires |-> UNDEFINED]

\* The literal {} of request()'s 204 branch.
EmptyObject == JsonValue("object", UNDEFINED, UNDEFINED)

\* What a method returns after `await this.request<void>(...)`.
Undefined == JsonValue("undefined", UNDEFINED, UNDEFINED)

\* The value a body text denotes, or a syntax error.
JsonDecode(s) ==
  IF s \in TokenTexts
    THEN LET p == CHOOSE q \in WireTokens \X ExpiresTexts : TokenJson(q[1], q[2]) = s
         IN  JsonValue("object", p[1], p[2])
    ELSE IF s = "[]" THEN JsonValue("array", UNDEFINED, UNDEFINED)
    ELSE JsonSyntaxError

JsonTable == [s \in BodyTexts |-> JsonDecode(s)]

\* response.json()
JsonParse(s) == JsonTable[s]

(* ------------------------ results and errors --------------------------- *)

\* A message is the sequence of the parts its template literal concatenates.
Contains(msg, part) == \E i \in 1 .. Len(msg) : msg[i] = part

Success(v) == [kind |-> "ok", name |-> "", message |-> <<>>, value |-> v]

Failure(name, msg) == [kind |-> "error", name |-> name, message |-> msg, value |-> Undefined]

NoResult == [kind |-> "none", name |-> "", message |-> <<>>, value |-> Undefined]

ReadonlyModeError(operation) ==
  Failure("ReadonlyModeError",
          <<"Operation \"", operation, "\" is not allowed in ", "readonly mode">>)

AuthenticationFailed(r) == Failure("Error", <<"Authentication failed: ", r.body>>)

\* ApiRequestFailed with the status left out of the message.
ApiRequestFailedNoStatus(r) == Failure("Error", <<"API request failed: ", r.body>>)

ApiRequestFailed(r) ==
  Failure("Error", <<"API request failed: ", ToString(r.status), " - ", r.body>>)

\* The rejection of fetch itself.
FetchFailed == Failure("TypeError", <<"fetch failed">>)

\* The rejection of response.json() on a body that is no JSON.
SyntaxError == Failure("SyntaxError", <<"Unexpected token in JSON">>)

(* --------------------------- the methods ------------------------------- *)

\* guard: the name passed to assertWritable ("" when the method has no guard);
\* verb, base, hasId, sub: the request; hasBody: whether `data` is passed;
\* discards: whether the method awaits the request and returns nothing.
Method(guard, verb, base, hasId, sub, hasBody, discards) ==
  [guard |-> guard, verb |-> verb, base |-> base, hasId |-> hasId, sub |-> sub,
   hasBody |-> hasBody, discards |-> discards]

Methods ==
  [
      listProxyHosts |->
        Method("", "GET", "/nginx/proxy-hosts", FALSE, "", FALSE, FALSE),
      getProxyHost |->
        Method("", "GET", "/nginx/proxy-hosts", TRUE, "", FALSE, FALSE),
      createProxyHost |->
        Method("createProxyHost", "POST", "/nginx/proxy-hosts", FALSE, "", TRUE, FALSE),
      updateProxyHost |->
        Method("updateProxyHost", "PUT", "/nginx/proxy-hosts", TRUE, "", TRUE, FALSE),
      deleteProxyHost |->
        Method("deleteProxyHost", "DELETE", "/nginx/proxy-hosts", TRUE, "", FALSE, TRUE),
      enableProxyHost |->
        Method("enableProxyHost", "POST", "/nginx/proxy-hosts", TRUE, "/enable", FALSE, FALSE),
      disableProxyHost |->
        Method("disableProxyHost", "POST", "/nginx/proxy-hosts", TRUE, "/disable", FALSE, FALSE),
      listCertificates |->
        Method("", "GET", "/nginx/certificates", FALSE, "", FALSE, FALSE),
      getCertificate |->
        Method("", "GET", "/nginx/certificates", TRUE, "", FALSE, FALSE),
      deleteCertificate |->
        Method("deleteCertificate", "DELETE", "/nginx/certificates", TRUE, "", FALSE, TRUE),
      renewCertificate |->
        Method("renewCertificate", "POST", "/nginx/certificates", TRUE, "/renew", FALSE, FALSE),
      listStreams |->
        Method("", "GET", "/nginx/streams", FALSE, "", FALSE, FALSE),
      getStream |->
        Method("", "GET", "/nginx/streams", TRUE, "", FALSE, FALSE),
      createStream |->
        Method("createStream", "POST", "/nginx/streams", FALSE, "", TRUE, FALSE),
      updateStream |->
        Method("updateStream", "PUT", "/nginx/streams", TRUE, "", TRUE, FALSE),
      deleteStream |->
        Method("deleteStream", "DELETE", "/nginx/streams", TRUE, "", FALSE, TRUE),
      enableStream |->
        Method("enableStream", "POST", "/nginx/streams", TRUE, "/enable", FALSE, FALSE),
      disableStream |->
        Method("disableStream", "POST", "/nginx/streams", TRUE, "/disable", FALSE, FALSE),
      listRedirectionHosts |->
        Method("", "GET", "/nginx/redirection-hosts", FALSE, "", FALSE, FALSE),
      getRedirectionHost |->
        Method("", "GET", "/nginx/redirection-hosts", TRUE, "", FALSE, FALSE),
      createRedirectionHost |->
        Method("createRedirectionHost", "POST", "/nginx/redirection-hosts", FALSE, "", TRUE, FALSE),
      updateRedirectionHost |->
        Method("updateRedirectionHost", "PUT", "/nginx/redirection-hosts", TRUE, "", TRUE, FALSE),
      deleteRedirectionHost |->
        Method("deleteRedirectionHost", "DELETE", "/nginx/redirection-hosts", TRUE, "", FALSE, TRUE),
      enableRedirectionHost |->
        Method("enableRedirectionHost", "POST", "/nginx/redirection-hosts", TRUE, "/enable", FALSE, FALSE),
      disableRedirectionHost |->
        Method("disableRedirectionHost", "POST", "/nginx/redirection-hosts", TRUE, "/disable", FALSE, FALSE),
      listDeadHosts |->
        Method("", "GET", "/nginx/dead-hosts", FALSE, "", FALSE, FALSE),
      getDeadHost |->
        Method("", "GET", "/nginx/dead-hosts", TRUE, "", FALSE, FALSE),
      createDeadHost |->
        Method("createDeadHost", "POST", "/nginx/dead-hosts", FALSE, "", TRUE, FALSE),
      updateDeadHost |->
        Method("updateDeadHost", "PUT", "/nginx/dead-hosts", TRUE, "", TRUE, FALSE),
      deleteDeadHost |->
        Method("deleteDeadHost", "DELETE", "/nginx/dead-hosts", TRUE, "", FALSE, TRUE),
      enableDeadHost |->
        Method("enableDeadHost", "POST", "/nginx/dead-hosts", TRUE, "/enable", FALSE, FALSE),
      disableDeadHost |->
        Method("disableDeadHost", "POST", "/nginx/dead-hosts", TRUE, "/disable", FALSE, FALSE),
      listAccessLists |->
        Method("", "GET", "/nginx/access-lists", FALSE, "", FALSE, FALSE),
      getAccessList |->
        Method("", "GET", "/nginx/access-lists", TRUE, "", FALSE, FALSE),
      createAccessList |->
        Method("createAccessList", "POST", "/nginx/access-lists", FALSE, "", TRUE, FALSE),
      updateAccessList |->
        Method("updateAccessList", "PUT", "/nginx/access-lists", TRUE, "", TRUE, FALSE),
      deleteAccessList |->
        Method("deleteAccessList", "DELETE", "/nginx/access-lists", TRUE, "", FALSE, TRUE),
      listUsers |->
        Method("", "GET", "/users", FALSE, "", FALSE, FALSE),
      getUser |->
        Method("", "GET", "/users", TRUE, "", FALSE, FALSE)
  ]

\* The methods that go through request().
RequestMethods == DOMAIN Methods

MethodNames == RequestMethods \cup {"getHealth"}

\* Guarded with the guard forgotten in renewCertificate.
GuardedExceptRenew(m) ==
  m \in RequestMethods /\ Methods[m].guard # "" /\ m # "renewCertificate"

\* Guarded with the guard put in every method that goes through request().
GuardedEveryMethod(m) == m \in RequestMethods

\* Whether the method calls assertWritable before anything else.
Guarded(m) == m \in RequestMethods /\ Methods[m].guard # ""

\* GuardName with enableStream's guard copied from enableProxyHost unchanged.
GuardNameCopied(m) ==
  IF m = "enableStream" THEN "enableProxyHost" ELSE Methods[m].guard

\* The operation name the method hands to assertWritable.
GuardName(m) == Methods[m].guard

\* The ids a call of m may be given (0: the method takes no id).
ArgsOf(m) == IF m \in RequestMethods /\ Methods[m].hasId THEN Ids ELSE {0}

(* ----------------------------- requests -------------------------------- *)

NoHeader == <<>>

\* Bearer with the header left out.
BearerOmitted(tok) == <<>>

\* Authorization: `Bearer ${token}`
Bearer(tok) == <<"Bearer", tok>>

\* fetch(`${baseUrl}/api/tokens`, POST identity/secret): no Authorization.
TokenRequest ==
  [kind |-> "token", verb |-> "POST", base |-> "/tokens", id |-> 0, sub |-> "",
   auth |-> NoHeader, body |-> "credentials"]

\* ResourceRequest with the sub-path of enable, disable and renew left out.
ResourceRequestOnItem(m, id, tok) ==
  [kind |-> "resource", verb |-> Methods[m].verb, base |-> Methods[m].base,
   id |-> id, sub |-> "", auth |-> Bearer(tok),
   body |-> IF Methods[m].hasBody THEN "data" ELSE "none"]

\* fetch(`${baseUrl}/api${path}`, {method, headers, body}) of request().
ResourceRequest(m, id, tok) ==
  [kind |-> "resource", verb |-> Methods[m].verb, base |-> Methods[m].base,
   id |-> id, sub |-> Methods[m].sub, auth |-> Bearer(tok),
   body |-> IF Methods[m].hasBody THEN "data" ELSE "none"]

\* fetch(`${baseUrl}/api/`) of getHealth: no init object, so GET and no headers.
HealthRequest ==
  [kind |-> "health", verb |-> "GET", base |-> "/", id |-> 0, sub |-> "",
   auth |-> NoHeader, body |-> "none"]

(* ------------------------------- state --------------------------------- *)

VARIABLES
  readonly,       \* this._readonly
  token,          \* this.token
  tokenExpires,   \* this.tokenExpires
  now,            \* the clock read by new Date()
  pc,             \* pc[c]: where pending call c is
  method,         \* method[c]: the client method call c runs
  arg,            \* arg[c]: its id argument
  localTok,       \* localTok[c]: `token` of request(), the value ensureToken returned
  obtained,       \* obtained[c]: the token of the token response call c received
  startState,     \* startState[c]: the state of the token cache when call c started
  log,            \* log[c]: the requests call c has sent, in order
  resp,           \* resp[c]: the last response call c received
  result,         \* result[c]: what the guard, request() or getHealth settled call c with
  authSinceStore, \* whether a token request was sent since the cache was last written
  config,         \* the readonly option the constructor was given
  peerToken,      \* this.token of a second client instance
  peerExpires,    \* this.tokenExpires of the second instance
  issued,         \* issued[k]: the tokens the token responses to instance k carried
  entry,          \* the program running: the CLI, the tool server, or a library caller
  env,            \* process.env: NPM_EMAIL, NPM_PASSWORD, NPM_READONLY
  argv,           \* process.argv.slice(2): command, subcommand, id argument
  phase,          \* where the process is
  exitCode,       \* the exit code of the process, once it has ended
  out,            \* what the process has written to stdout and stderr, in order
  tool,           \* the tool whose handler is running
  rendered        \* what the last tool handler returned

\* The state of the client.
clientVars ==
  <<readonly, token, tokenExpires, now, pc, method, arg, localTok, obtained,
    startState, log, resp, result, authSinceStore>>

\* The state of a second client instance and the record of issued tokens.
peerVars == <<peerToken, peerExpires, issued>>

\* The state of the process around the client.
procVars == <<config, entry, env, argv, phase, exitCode, out, tool, rendered>>

vars ==
  <<readonly, token, tokenExpires, now, pc, method, arg, localTok, obtained,
    startState, log, resp, result, authSinceStore, config, peerToken,
    peerExpires, issued, entry, env, argv, phase, exitCode, out, tool, rendered>>

\* TokenValid with the comparison the wrong way round.
TokenValidInverted(tok, exp, t) ==
  Truthy(tok) /\ exp # NullDate /\ exp.kind = "time" /\ exp.t < t

\* TokenValid with the expiry never looked at.
TokenValidIgnoresExpiry(tok, exp, t) == Truthy(tok)

\* ensureToken's test: the cached token is returned as it is.
TokenValid(tok, exp, t) == Truthy(tok) /\ exp # NullDate /\ DateGT(exp, t)

\* The lifecycle state of a cache holding tok and exp at instant t, read off
\* the values alone: Absent (nothing was ever stored), Valid (a token, and t is
\* before its expiry), Expired (t is at or after the stored expiry), Unusable
\* (what was stored is an empty or missing token, or an expiry that is no date).
CacheState(tok, exp, t) ==
  IF tok = NULL /\ exp.kind = "null" THEN "Absent"
  ELSE IF exp.kind = "time" /\ t >= exp.t THEN "Expired"
  ELSE IF exp.kind = "time" /\ tok \notin {NULL, UNDEFINED, ""} THEN "Valid"
  ELSE "Unusable"

\* get isReadonly()
IsReadonly == readonly

\* assertWritable(operation): whether it throws.
AssertWritableThrows(ro) == ro

Idle(c) == pc[c] = "idle"

\* An option that was not given, and one that was.
None == {}

Some(v) == {v}

\* ConstructReadonly with readonly as the default.
ConstructReadonlyDefaultsOn(opt) == IF opt = {} THEN TRUE ELSE CHOOSE b \in opt : TRUE

\* The constructor's `config.readonly ?? false`.
ConstructReadonly(opt) == IF opt = None THEN FALSE ELSE CHOOSE b \in opt : TRUE

\* The two instances a program may hold.
Clients == {"A", "B"}

\* No environment, no arguments, no tool result: the client used as a library.
NoEnv == [email |-> UNDEFINED, password |-> UNDEFINED, readonly |-> UNDEFINED]

NoArgv == [command |-> UNDEFINED, subcommand |-> UNDEFINED, id |-> <<>>]

NoRendered == [isError |-> FALSE, kind |-> "none", text |-> <<>>]

\* The fields of a client the constructor has just returned, and of its peer;
\* no call is pending.
Fresh ==
  /\ token = NULL
  /\ tokenExpires = NullDate
  /\ now = 0
  /\ pc = [c \in Calls |-> "idle"]
  /\ method = [c \in Calls |-> "none"]
  /\ arg = [c \in Calls |-> 0]
  /\ localTok = [c \in Calls |-> NULL]
  /\ obtained = [c \in Calls |-> NULL]
  /\ startState = [c \in Calls |-> "Absent"]
  /\ log = [c \in Calls |-> <<>>]
  /\ resp = [c \in Calls |-> NoResponse]
  /\ result = [c \in Calls |-> NoResult]
  /\ authSinceStore = FALSE
  /\ peerToken = NULL
  /\ peerExpires = NullDate
  /\ issued = [k \in Clients |-> {}]

\* A library caller: no environment is read, nothing is printed.
Library ==
  /\ entry = "lib"
  /\ env = NoEnv
  /\ argv = NoArgv
  /\ phase = "lib"
  /\ exitCode = -1
  /\ out = <<>>
  /\ tool = "none"
  /\ rendered = NoRendered

\* A client built by a library caller, without the readonly option or with
\* readonly: true.
Init ==
  /\ config \in {None, Some(TRUE)}
  /\ readonly = ConstructReadonly(config)
  /\ Library
  /\ Fresh

(* ------------------------------ actions -------------------------------- *)

\* The caller invokes method m with id: the code up to the first fetch.
\*   guarded method, readonly: assertWritable throws, the call is over;
\*   getHealth: the bare fetch of /api/;
\*   otherwise request(): ensureToken returns the cached token and the
\*   resource request is sent with it, or the token request is sent.
Call(c, m, id) ==
  /\ Idle(c)
  /\ method' = [method EXCEPT ![c] = m]
  /\ arg' = [arg EXCEPT ![c] = id]
  /\ startState' = [startState EXCEPT ![c] = CacheState(token, tokenExpires, now)]
  /\ obtained' = [obtained EXCEPT ![c] = NULL]
  /\ resp' = [resp EXCEPT ![c] = NoResponse]
  /\ IF Guarded(m) /\ AssertWritableThrows(readonly)
       THEN /\ result' = [result EXCEPT ![c] = ReadonlyModeError(GuardName(m))]
            /\ pc' = [pc EXCEPT ![c] = "done"]
            /\ log' = [log EXCEPT ![c] = <<>>]
            /\ localTok' = [localTok EXCEPT ![c] = NULL]
            /\ UNCHANGED authSinceStore
       ELSE IF m = "getHealth"
       THEN /\ log' = [log EXCEPT ![c] = <<HealthRequest>>]
            /\ pc' = [pc EXCEPT ![c] = "health_wait"]
            /\ result' = [result EXCEPT ![c] = NoResult]
            /\ localTok' = [localTok EXCEPT ![c] = NULL]
            /\ UNCHANGED authSinceStore
       ELSE IF TokenValid(token, tokenExpires, now)
       THEN /\ localTok' = [localTok EXCEPT ![c] = token]
            /\ log' = [log EXCEPT ![c] = <<ResourceRequest(m, id, token)>>]
            /\ pc' = [pc EXCEPT ![c] = "res_wait"]
            /\ result' = [result EXCEPT ![c] = NoResult]
            /\ UNCHANGED authSinceStore
       ELSE /\ log' = [log EXCEPT ![c] = <<TokenRequest>>]
            /\ pc' = [pc EXCEPT ![c] = "auth_wait"]
            /\ result' = [result EXCEPT ![c] = NoResult]
            /\ localTok' = [localTok EXCEPT ![c] = NULL]
            /\ authSinceStore' = TRUE
  /\ UNCHANGED <<readonly, token, tokenExpires, now>>

\* AuthResponse with the cache emptied when the token request is refused.
AuthResponseClearsOnFailure(c, r) ==
  /\ pc[c] = "auth_wait"
  /\ resp' = [resp EXCEPT ![c] = r]
  /\ IF r.net = "rejected"
       THEN /\ result' = [result EXCEPT ![c] = FetchFailed]
            /\ pc' = [pc EXCEPT ![c] = "done"]
            /\ UNCHANGED <<token, tokenExpires, localTok, obtained, log, authSinceStore>>
       ELSE IF ~Ok(r)
       THEN /\ result' = [result EXCEPT ![c] = AuthenticationFailed(r)]
            /\ pc' = [pc EXCEPT ![c] = "done"]
            /\ token' = NULL
            /\ tokenExpires' = NullDate
            /\ UNCHANGED <<localTok, obtained, log, authSinceStore>>
       ELSE IF ~JsonParse(r.body).valid
       THEN /\ result' = [result EXCEPT ![c] = SyntaxError]
            /\ pc' = [pc EXCEPT ![c] = "done"]
            /\ UNCHANGED <<token, tokenExpires, localTok, obtained, log, authSinceStore>>
       ELSE LET data == JsonParse(r.body) IN
            /\ token' = data.token
            /\ tokenExpires' = ParseDate(data.expires)
            /\ authSinceStore' = FALSE
            /\ obtained' = [obtained EXCEPT ![c] = data.token]
            /\ localTok' = [localTok EXCEPT ![c] = data.token]
            /\ log' = [log EXCEPT ![c] =
                         Append(@, ResourceRequest(method[c], arg[c], data.token))]
            /\ pc' = [pc EXCEPT ![c] = "res_wait"]
            /\ UNCHANGED result
  /\ UNCHANGED <<readonly, now, method, arg, startState>>

\* AuthResponse with the resource request carrying the token the cache held
\* before the response.
AuthResponseSendsCached(c, r) ==
  /\ pc[c] = "auth_wait"
  /\ resp' = [resp EXCEPT ![c] = r]
  /\ IF r.net = "rejected"
       THEN /\ result' = [result EXCEPT ![c] = FetchFailed]
            /\ pc' = [pc EXCEPT ![c] = "done"]
            /\ UNCHANGED <<token, tokenExpires, localTok, obtained, log, authSinceStore>>
       ELSE IF ~Ok(r)
       THEN /\ result' = [result EXCEPT ![c] = AuthenticationFailed(r)]
            /\ pc' = [pc EXCEPT ![c] = "done"]
            /\ UNCHANGED <<token, tokenExpires, localTok, obtained, log, authSinceStore>>
       ELSE IF ~JsonParse(r.body).valid
       THEN /\ result' = [result EXCEPT ![c] = SyntaxError]
            /\ pc' = [pc EXCEPT ![c] = "done"]
            /\ UNCHANGED <<token, tokenExpires, localTok, obtained, log, authSinceStore>>
       ELSE LET data == JsonParse(r.body) IN
            /\ token' = data.token
            /\ tokenExpires' = ParseDate(data.expires)
            /\ authSinceStore' = FALSE
            /\ obtained' = [obtained EXCEPT ![c] = data.token]
            /\ localTok' = [localTok EXCEPT ![c] = data.token]
            /\ log' = [log EXCEPT ![c] =
                         Append(@, ResourceRequest(method[c], arg[c], token))]
            /\ pc' = [pc EXCEPT ![c] = "res_wait"]
            /\ UNCHANGED result
  /\ UNCHANGED <<readonly, now, method, arg, startState>>

\* AuthResponse with the expiry stored only when none is cached.
AuthResponseKeepsExpiry(c, r) ==
  /\ pc[c] = "auth_wait"
  /\ resp' = [resp EXCEPT ![c] = r]
  /\ IF r.net = "rejected"
       THEN /\ result' = [result EXCEPT ![c] = FetchFailed]
            /\ pc' = [pc EXCEPT ![c] = "done"]
            /\ UNCHANGED <<token, tokenExpires, localTok, obtained, log, authSinceStore>>
       ELSE IF ~Ok(r)
       THEN /\ result' = [result EXCEPT ![c] = AuthenticationFailed(r)]
            /\ pc' = [pc EXCEPT ![c] = "done"]
            /\ UNCHANGED <<token, tokenExpires, localTok, obtained, log, authSinceStore>>
       ELSE IF ~JsonParse(r.body).valid
       THEN /\ result' = [result EXCEPT ![c] = SyntaxError]
            /\ pc' = [pc EXCEPT ![c] = "done"]
            /\ UNCHANGED <<token, tokenExpires, localTok, obtained, log, authSinceStore>>
       ELSE LET data == JsonParse(r.body) IN
            /\ token' = data.token
            /\ tokenExpires' = IF tokenExpires = NullDate
                                THEN ParseDate(data.expires)
                                ELSE tokenExpires
            /\ authSinceStore' = FALSE
            /\ obtained' = [obtained EXCEPT ![c] = data.token]
            /\ localTok' = [localTok EXCEPT ![c] = data.token]
            /\ log' = [log EXCEPT ![c] =
                         Append(@, ResourceRequest(method[c], arg[c], data.token))]
            /\ pc' = [pc EXCEPT ![c] = "res_wait"]
            /\ UNCHANGED result
  /\ UNCHANGED <<readonly, now, method, arg, startState>>

\* The token response arrives: the rest of ensureToken and, when it returns,
\* the fetch of request().
AuthResponse(c, r) ==
  /\ pc[c] = "auth_wait"
  /\ resp' = [resp EXCEPT ![c] = r]
  /\ IF r.net = "rejected"
       THEN /\ result' = [result EXCEPT ![c] = FetchFailed]
            /\ pc' = [pc EXCEPT ![c] = "done"]
            /\ UNCHANGED <<token, tokenExpires, localTok, obtained, log, authSinceStore>>
       ELSE IF ~Ok(r)
       THEN /\ result' = [result EXCEPT ![c] = AuthenticationFailed(r)]
            /\ pc' = [pc EXCEPT ![c] = "done"]
            /\ UNCHANGED <<token, tokenExpires, localTok, obtained, log, authSinceStore>>
       ELSE IF ~JsonParse(r.body).valid
       THEN /\ result' = [result EXCEPT ![c] = SyntaxError]
            /\ pc' = [pc EXCEPT ![c] = "done"]
            /\ UNCHANGED <<token, tokenExpires, localTok, obtained, log, authSinceStore>>
       ELSE LET data == JsonParse(r.body) IN
            /\ token' = data.token
            /\ tokenExpires' = ParseDate(data.expires)
            /\ authSinceStore' = FALSE
            /\ obtained' = [obtained EXCEPT ![c] = data.token]
            /\ localTok' = [localTok EXCEPT ![c] = data.token]
            /\ log' = [log EXCEPT ![c] =
                         Append(@, ResourceRequest(method[c], arg[c], data.token))]
            /\ pc' = [pc EXCEPT ![c] = "res_wait"]
            /\ UNCHANGED result
  /\ UNCHANGED <<readonly, now, method, arg, startState>>

\* RequestOutcome without the 204 branch.
RequestOutcomeParses204(r) ==
  IF r.net = "rejected" THEN FetchFailed
  ELSE IF ~Ok(r) THEN ApiRequestFailed(r)
  ELSE IF JsonParse(r.body).valid THEN Success(JsonParse(r.body))
  ELSE SyntaxError

\* What request() resolves or rejects with, given the resource response.
RequestOutcome(r) ==
  IF r.net = "rejected" THEN FetchFailed
  ELSE IF ~Ok(r) THEN ApiRequestFailed(r)
  ELSE IF r.status = 204 THEN Success(EmptyObject)
  ELSE IF JsonParse(r.body).valid THEN Success(JsonParse(r.body))
  ELSE SyntaxError

\* What method m makes of request()'s outcome: delete* awaits it and returns
\* nothing, every other method returns it.
MethodOutcome(m, o) ==
  IF m \in RequestMethods /\ o.kind = "ok" /\ Methods[m].discards
    THEN Success(Undefined)
    ELSE o

\* ResourceResponse with a failed request sent once more.
ResourceResponseRetrying(c, r) ==
  /\ pc[c] = "res_wait"
  /\ resp' = [resp EXCEPT ![c] = r]
  /\ IF RequestOutcome(r).kind = "error" /\ Len(log[c]) < 3
       THEN /\ log' = [log EXCEPT ![c] = Append(@, @[Len(@)])]
            /\ UNCHANGED <<pc, result>>
       ELSE /\ result' = [result EXCEPT ![c] = RequestOutcome(r)]
            /\ pc' = [pc EXCEPT ![c] = "done"]
            /\ UNCHANGED log
  /\ UNCHANGED <<readonly, token, tokenExpires, now, method, arg, localTok, obtained,
                 startState, authSinceStore>>

\* ResourceResponse with the cached token dropped when the request is refused.
ResourceResponseDropsRejected(c, r) ==
  /\ pc[c] = "res_wait"
  /\ resp' = [resp EXCEPT ![c] = r]
  /\ result' = [result EXCEPT ![c] = RequestOutcome(r)]
  /\ pc' = [pc EXCEPT ![c] = "done"]
  /\ token' = IF r.net = "resolved" /\ ~Ok(r) THEN NULL ELSE token
  /\ tokenExpires' = IF r.net = "resolved" /\ ~Ok(r) THEN NullDate ELSE tokenExpires
  /\ UNCHANGED <<readonly, now, method, arg, localTok, obtained, startState, log,
                 authSinceStore>>

\* The resource response arrives: the rest of request() and of the method.
ResourceResponse(c, r) ==
  /\ pc[c] = "res_wait"
  /\ resp' = [resp EXCEPT ![c] = r]
  /\ result' = [result EXCEPT ![c] = RequestOutcome(r)]
  /\ pc' = [pc EXCEPT ![c] = "done"]
  /\ UNCHANGED <<readonly, token, tokenExpires, now, method, arg, localTok, obtained,
                 startState, log, authSinceStore>>

\* What getHealth resolves or rejects with: response.json(), whatever the status.
HealthOutcome(r) ==
  IF r.net = "rejected" THEN FetchFailed
  ELSE IF JsonParse(r.body).valid THEN Success(JsonParse(r.body))
  ELSE SyntaxError

\* The response to GET /api/ arrives.
HealthResponse(c, r) ==
  /\ pc[c] = "health_wait"
  /\ resp' = [resp EXCEPT ![c] = r]
  /\ result' = [result EXCEPT ![c] = HealthOutcome(r)]
  /\ pc' = [pc EXCEPT ![c] = "done"]
  /\ UNCHANGED <<readonly, token, tokenExpires, now, method, arg, localTok, obtained,
                 startState, log, authSinceStore>>

\* The caller takes the settled promise: the call is over and forgotten.
Return(c) ==
  /\ pc[c] = "done"
  /\ pc' = [pc EXCEPT ![c] = "idle"]
  /\ method' = [method EXCEPT ![c] = "none"]
  /\ arg' = [arg EXCEPT ![c] = 0]
  /\ localTok' = [localTok EXCEPT ![c] = NULL]
  /\ obtained' = [obtained EXCEPT ![c] = NULL]
  /\ startState' = [startState EXCEPT ![c] = "Absent"]
  /\ log' = [log EXCEPT ![c] = <<>>]
  /\ resp' = [resp EXCEPT ![c] = NoResponse]
  /\ result' = [result EXCEPT ![c] = NoResult]
  /\ UNCHANGED <<readonly, token, tokenExpires, now, authSinceStore>>

\* What the promise of call c settles with.
Returned(c) == MethodOutcome(method[c], result[c])

\* Tick with a timeout: a call that is waiting for a response is given up.
TickTimesOut ==
  /\ now < MaxTime
  /\ now' = now + 1
  /\ pc' = [c \in Calls |-> IF pc[c] \in {"idle", "done"} THEN pc[c] ELSE "done"]
  /\ result' = [c \in Calls |->
                  IF pc[c] \in {"idle", "done"} THEN result[c] ELSE FetchFailed]
  /\ UNCHANGED <<readonly, token, tokenExpires, method, arg, localTok, obtained,
                 startState, log, resp, authSinceStore>>

\* Time passes.
Tick ==
  /\ now < MaxTime
  /\ now' = now + 1
  /\ UNCHANGED <<readonly, token, tokenExpires, pc, method, arg, localTok, obtained,
                 startState, log, resp, result, authSinceStore>>

\* A call made by a caller that awaits each call before making the next.
SequentialCall(m, id) ==
  /\ \A d \in Calls : Idle(d)
  /\ Call(1, m, id)

\* The remote service answers the request a call is waiting on.
Respond ==
  \E c \in Calls :
    \/ \E r \in ResponsesTo("token") : AuthResponse(c, r)
    \/ \E r \in ResponsesTo("resource") : ResourceResponse(c, r)
    \/ \E r \in ResponsesTo("health") : HealthResponse(c, r)

\* Nothing but the client changes.
ClientOnly == UNCHANGED <<peerVars, procVars>>

Next ==
  \/ \E m \in MethodNames : \E id \in ArgsOf(m) : SequentialCall(m, id) /\ ClientOnly
  \/ Respond /\ ClientOnly
  \/ \E c \in Calls : Return(c) /\ ClientOnly
  \/ Tick /\ ClientOnly

\* The client driven by a caller that awaits each call before the next.
Spec == Init /\ [][Next]_vars

(* --------------------------- concurrent calls -------------------------- *)

\* The methods a caller that does not await starts: a read, a guarded
\* mutation that discards its response.
ConcurrentMethods == {"listUsers", "deleteStream"}

\* Whether a token response grants a token: 2xx with a JSON body.
Granted(r) == r.net = "resolved" /\ r.status \in 200 .. 299 /\ JsonParse(r.body).valid

\* The tokens instance k has been granted, r included.
IssuedWith(k, r) ==
  [issued EXCEPT ![k] = IF Granted(r) THEN @ \cup {JsonParse(r.body).token} ELSE @]

\* What the remote service answers while calls race: to a token request a
\* token with an expiry, or a refusal; to a resource request a JSON body, or a
\* refusal.
RacingResponsesTo(kind) ==
  IF kind = "token"
    THEN {HttpResponse(200, TokenJson(t, e)) :
            t \in WireTokens \ {""}, e \in ExpiresTexts \ {"soon"}}
         \cup {HttpResponse(500, "Not Found")}
    ELSE {HttpResponse(200, "[]"), HttpResponse(500, "Not Found")}

\* A caller starts a call while at most one other call is pending.
ConcurrentCall(c, m, id) ==
  /\ Cardinality({d \in Calls : ~Idle(d)}) <= 1
  /\ \A d \in Calls : d < c => ~Idle(d)
  /\ Call(c, m, id)
  /\ UNCHANGED <<peerVars, procVars>>

\* The token response to a call of the client, recorded as issued.
RecordedAuthResponse(c, r) ==
  /\ AuthResponse(c, r)
  /\ issued' = IssuedWith("A", r)
  /\ UNCHANGED <<peerToken, peerExpires, procVars>>

ConcurrentNext ==
  \/ \E c \in Calls : \E m \in ConcurrentMethods : \E id \in ArgsOf(m) :
       ConcurrentCall(c, m, id)
  \/ \E c \in Calls : \E r \in RacingResponsesTo("token") : RecordedAuthResponse(c, r)
  \/ \E c \in Calls : \E r \in RacingResponsesTo("resource") :
       ResourceResponse(c, r) /\ ClientOnly
  \/ \E c \in Calls : Return(c) /\ ClientOnly
  \/ Tick /\ ClientOnly

\* The client driven by a caller that starts calls without awaiting them.
ConcurrentSpec == Init /\ [][ConcurrentNext]_vars

(* -------------------- concurrent calls, step by step ------------------- *)

\* `const token = await this.ensureToken()` resumes request() in a later
\* microtask than the one in which ensureToken returned, so another call's
\* continuation may run in between.  Here the return of ensureToken and the
\* fetch of request() are two steps; pc[c] = "token_ready" lies between them
\* and localTok[c] is request()'s local `token`.

\* A call starts while at most one other call is pending: the guard, then
\* ensureToken up to its return of the cached token or to its token request.
EnsureTokenCall(c, m, id) ==
  /\ Cardinality({d \in Calls : ~Idle(d)}) <= 1
  /\ \A d \in Calls : d < c => ~Idle(d)
  /\ Idle(c)
  /\ method' = [method EXCEPT ![c] = m]
  /\ arg' = [arg EXCEPT ![c] = id]
  /\ startState' = [startState EXCEPT ![c] = CacheState(token, tokenExpires, now)]
  /\ obtained' = [obtained EXCEPT ![c] = NULL]
  /\ resp' = [resp EXCEPT ![c] = NoResponse]
  /\ IF Guarded(m) /\ AssertWritableThrows(readonly)
       THEN /\ result' = [result EXCEPT ![c] = ReadonlyModeError(GuardName(m))]
            /\ pc' = [pc EXCEPT ![c] = "done"]
            /\ log' = [log EXCEPT ![c] = <<>>]
            /\ localTok' = [localTok EXCEPT ![c] = NULL]
            /\ UNCHANGED authSinceStore
       ELSE IF TokenValid(token, tokenExpires, now)
       THEN /\ localTok' = [localTok EXCEPT ![c] = token]
            /\ log' = [log EXCEPT ![c] = <<>>]
            /\ pc' = [pc EXCEPT ![c] = "token_ready"]
            /\ result' = [result EXCEPT ![c] = NoResult]
            /\ UNCHANGED authSinceStore
       ELSE /\ log' = [log EXCEPT ![c] = <<TokenRequest>>]
            /\ pc' = [pc EXCEPT ![c] = "auth_wait"]
            /\ result' = [result EXCEPT ![c] = NoResult]
            /\ localTok' = [localTok EXCEPT ![c] = NULL]
            /\ authSinceStore' = TRUE
  /\ UNCHANGED <<readonly, token, tokenExpires, now, peerVars, procVars>>

\* The token response arrives: the rest of ensureToken, up to its return.
EnsureTokenResponse(c, r) ==
  /\ pc[c] = "auth_wait"
  /\ resp' = [resp EXCEPT ![c] = r]
  /\ IF r.net = "rejected"
       THEN /\ result' = [result EXCEPT ![c] = FetchFailed]
            /\ pc' = [pc EXCEPT ![c] = "done"]
            /\ UNCHANGED <<token, tokenExpires, localTok, obtained, authSinceStore>>
       ELSE IF ~Ok(r)
       THEN /\ result' = [result EXCEPT ![c] = AuthenticationFailed(r)]
            /\ pc' = [pc EXCEPT ![c] = "done"]
            /\ UNCHANGED <<token, tokenExpires, localTok, obtained, authSinceStore>>
       ELSE IF ~JsonParse(r.body).valid
       THEN /\ result' = [result EXCEPT ![c] = SyntaxError]
            /\ pc' = [pc EXCEPT ![c] = "done"]
            /\ UNCHANGED <<token, tokenExpires, localTok, obtained, authSinceStore>>
       ELSE LET data == JsonParse(r.body) IN
            /\ token' = data.token
            /\ tokenExpires' = ParseDate(data.expires)
            /\ authSinceStore' = FALSE
            /\ obtained' = [obtained EXCEPT ![c] = data.token]
            /\ localTok' = [localTok EXCEPT ![c] = data.token]
            /\ pc' = [pc EXCEPT ![c] = "token_ready"]
            /\ UNCHANGED result
  /\ UNCHANGED <<readonly, now, method, arg, startState, log, peerVars, procVars>>

\* RequestFetch with the Authorization header built from this.token.
RequestFetchFromCache(c) ==
  /\ pc[c] = "token_ready"
  /\ log' = [log EXCEPT ![c] = Append(@, ResourceRequest(method[c], arg[c], token))]
  /\ pc' = [pc EXCEPT ![c] = "res_wait"]
  /\ UNCHANGED <<readonly, token, tokenExpires, now, method, arg, localTok, obtained,
                 startState, resp, result, authSinceStore, peerVars, procVars>>

\* request() resumes with the token ensureToken returned and sends the
\* resource request.
RequestFetch(c) ==
  /\ pc[c] = "token_ready"
  /\ log' = [log EXCEPT ![c] = Append(@, ResourceRequest(method[c], arg[c], localTok[c]))]
  /\ pc' = [pc EXCEPT ![c] = "res_wait"]
  /\ UNCHANGED <<readonly, token, tokenExpires, now, method, arg, localTok, obtained,
                 startState, resp, result, authSinceStore, peerVars, procVars>>

InterleavedNext ==
  \/ \E c \in Calls : \E m \in ConcurrentMethods : \E id \in ArgsOf(m) :
       EnsureTokenCall(c, m, id)
  \/ \E c \in Calls : \E r \in RacingResponsesTo("token") : EnsureTokenResponse(c, r)
  \/ \E c \in Calls : RequestFetch(c)
  \/ \E c \in Calls : \E r \in RacingResponsesTo("resource") :
       ResourceResponse(c, r) /\ ClientOnly
  \/ \E c \in Calls : Return(c) /\ ClientOnly
  \/ Tick /\ ClientOnly

\* The client driven by a caller that starts calls without awaiting them, with
\* calls interleaved at every await.
InterleavedSpec == Init /\ [][InterleavedNext]_vars

(* ----------------------- a remote that answers ------------------------- *)

\* The methods called while the remote service is assumed to answer: a read,
\* a guarded mutation, the health operation.
AnsweredMethods == ConcurrentMethods \cup {"getHealth"}

\* What comes back for a request of the given kind: a status and a body, or
\* the rejection of fetch.
AnswersTo(kind) ==
  IF kind = "health"
    THEN {TransportError, HttpResponse(200, "[]"), HttpResponse(404, "Not Found")}
    ELSE RacingResponsesTo(kind) \cup {TransportError}

\* The fetch a call is waiting on settles.
Answer ==
  \E c \in Calls :
    \/ \E r \in AnswersTo("token") : AuthResponse(c, r)
    \/ \E r \in AnswersTo("resource") : ResourceResponse(c, r)
    \/ \E r \in AnswersTo("health") : HealthResponse(c, r)

AnsweringNext ==
  \/ \E m \in AnsweredMethods : \E id \in ArgsOf(m) : SequentialCall(m, id) /\ ClientOnly
  \/ Answer /\ ClientOnly
  \/ \E c \in Calls : Return(c) /\ ClientOnly
  \/ Tick /\ ClientOnly

\* The client with a remote service that eventually answers every request: a
\* fetch that is pending does not stay pending forever.
AnsweringSpec == Init /\ [][AnsweringNext]_vars /\ WF_vars(Answer /\ ClientOnly)

(* ---------------------------- two instances --------------------------- *)

\* The calls made on the second instance; call 1 is made on the first.
PeerCalls == Calls \ {1}

\* The instance a call is made on.
Owner(c) == IF c \in PeerCalls THEN "B" ELSE "A"

\* Call on the second instance: the same code, with the fields of that
\* instance.
PeerCall(c, m, id) ==
  /\ Idle(c)
  /\ method' = [method EXCEPT ![c] = m]
  /\ arg' = [arg EXCEPT ![c] = id]
  /\ startState' = [startState EXCEPT ![c] = CacheState(peerToken, peerExpires, now)]
  /\ obtained' = [obtained EXCEPT ![c] = NULL]
  /\ resp' = [resp EXCEPT ![c] = NoResponse]
  /\ IF Guarded(m) /\ AssertWritableThrows(readonly)
       THEN /\ result' = [result EXCEPT ![c] = ReadonlyModeError(GuardName(m))]
            /\ pc' = [pc EXCEPT ![c] = "done"]
            /\ log' = [log EXCEPT ![c] = <<>>]
            /\ localTok' = [localTok EXCEPT ![c] = NULL]
            /\ UNCHANGED authSinceStore
       ELSE IF m = "getHealth"
       THEN /\ log' = [log EXCEPT ![c] = <<HealthRequest>>]
            /\ pc' = [pc EXCEPT ![c] = "health_wait"]
            /\ result' = [result EXCEPT ![c] = NoResult]
            /\ localTok' = [localTok EXCEPT ![c] = NULL]
            /\ UNCHANGED authSinceStore
       ELSE IF TokenValid(peerToken, peerExpires, now)
       THEN /\ localTok' = [localTok EXCEPT ![c] = peerToken]
            /\ log' = [log EXCEPT ![c] = <<ResourceRequest(m, id, peerToken)>>]
            /\ pc' = [pc EXCEPT ![c] = "res_wait"]
            /\ result' = [result EXCEPT ![c] = NoResult]
            /\ UNCHANGED authSinceStore
       ELSE /\ log' = [log EXCEPT ![c] = <<TokenRequest>>]
            /\ pc' = [pc EXCEPT ![c] = "auth_wait"]
            /\ result' = [result EXCEPT ![c] = NoResult]
            /\ localTok' = [localTok EXCEPT ![c] = NULL]
            /\ UNCHANGED authSinceStore
  /\ UNCHANGED <<readonly, token, tokenExpires, peerToken, peerExpires, now>>

\* PeerAuthResponse with the token fields shared by all instances.
PeerAuthResponseShared(c, r) ==
  /\ AuthResponse(c, r)
  /\ UNCHANGED <<peerToken, peerExpires>>

\* AuthResponse on the second instance: the same code, with the fields of that
\* instance.
PeerAuthResponse(c, r) ==
  /\ pc[c] = "auth_wait"
  /\ resp' = [resp EXCEPT ![c] = r]
  /\ IF r.net = "rejected"
       THEN /\ result' = [result EXCEPT ![c] = FetchFailed]
            /\ pc' = [pc EXCEPT ![c] = "done"]
            /\ UNCHANGED <<peerToken, peerExpires, localTok, obtained, log, authSinceStore>>
       ELSE IF ~Ok(r)
       THEN /\ result' = [result EXCEPT ![c] = AuthenticationFailed(r)]
            /\ pc' = [pc EXCEPT ![c] = "done"]
            /\ UNCHANGED <<peerToken, peerExpires, localTok, obtained, log, authSinceStore>>
       ELSE IF ~JsonParse(r.body).valid
       THEN /\ result' = [result EXCEPT ![c] = SyntaxError]
            /\ pc' = [pc EXCEPT ![c] = "done"]
            /\ UNCHANGED <<peerToken, peerExpires, localTok, obtained, log, authSinceStore>>
       ELSE LET data == JsonParse(r.body) IN
            /\ peerToken' = data.token
            /\ peerExpires' = ParseDate(data.expires)
            /\ UNCHANGED authSinceStore
            /\ obtained' = [obtained EXCEPT ![c] = data.token]
            /\ localTok' = [localTok EXCEPT ![c] = data.token]
            /\ log' = [log EXCEPT ![c] =
                         Append(@, ResourceRequest(method[c], arg[c], data.token))]
            /\ pc' = [pc EXCEPT ![c] = "res_wait"]
            /\ UNCHANGED result
  /\ UNCHANGED <<readonly, token, tokenExpires, now, method, arg, startState>>

\* A program holding two instances makes one call at a time, on either.
TwoClientNext ==
  \/ \E m \in ConcurrentMethods : \E id \in ArgsOf(m) :
       /\ \A d \in Calls : Idle(d)
       /\ Call(1, m, id)
       /\ UNCHANGED <<peerVars, procVars>>
  \/ \E c \in PeerCalls : \E m \in ConcurrentMethods : \E id \in ArgsOf(m) :
       /\ \A d \in Calls : Idle(d)
       /\ PeerCall(c, m, id)
       /\ UNCHANGED <<issued, procVars>>
  \/ \E r \in RacingResponsesTo("token") : RecordedAuthResponse(1, r)
  \/ \E c \in PeerCalls : \E r \in RacingResponsesTo("token") :
       /\ PeerAuthResponse(c, r)
       /\ issued' = IssuedWith("B", r)
       /\ UNCHANGED procVars
  \/ \E c \in Calls : \E r \in RacingResponsesTo("resource") :
       ResourceResponse(c, r) /\ ClientOnly
  \/ \E c \in Calls : Return(c) /\ ClientOnly
  \/ Tick /\ ClientOnly

\* Two instances in one program.
TwoClientSpec == Init /\ [][TwoClientNext]_vars

(* ------------------------- the two entry points ------------------------ *)

\* Values NPM_EMAIL, NPM_PASSWORD and NPM_READONLY may have in the
\* environment; UNDEFINED: the variable is not set.
EmailValues == {UNDEFINED, "", "admin@example.com"}

PasswordValues == {UNDEFINED, "", "secret"}

ReadonlyValues == {UNDEFINED, "", "true", "TRUE", "1"}

Environments ==
  [email : EmailValues, password : PasswordValues, readonly : ReadonlyValues]

\* `process.env.X || ""`
OrEmpty(v) == IF Truthy(v) THEN v ELSE ""

NPM_EMAIL(e) == OrEmpty(e.email)

NPM_PASSWORD(e) == OrEmpty(e.password)

\* NPM_READONLY switched on by any non-empty value.
NPM_READONLY_Truthy(e) == Truthy(e.readonly)

\* `process.env.NPM_READONLY === "true"`
NPM_READONLY(e) == e.readonly = "true"

\* The credential test with the password forgotten.
MissingCredentialsEmailOnly(e) == ~Truthy(NPM_EMAIL(e))

\* `!NPM_EMAIL || !NPM_PASSWORD`
MissingCredentials(e) == ~Truthy(NPM_EMAIL(e)) \/ ~Truthy(NPM_PASSWORD(e))

\* A line written by console.log (stdout) or console.error (stderr).
Stdout(kind, text) == [stream |-> "stdout", kind |-> kind, text |-> text]

Stderr(kind, text) == [stream |-> "stderr", kind |-> kind, text |-> text]

CredentialsRequired ==
  Stderr("error",
         <<"Error: NPM_EMAIL and NPM_PASSWORD environment variables are required">>)

ReadonlyBanner ==
  Stderr("banner", <<"Nginx Proxy Manager MCP Server running in READONLY mode">>)

\* The top of cli.ts and of index.ts: the environment is read, the process
\* exits with 1 when a credential is missing, else the client is constructed
\* (and the server announces readonly mode and connects).
Boot ==
  /\ phase = "boot"
  /\ IF MissingCredentials(env)
       THEN /\ out' = Append(out, CredentialsRequired)
            /\ exitCode' = 1
            /\ phase' = "failed"
            /\ UNCHANGED <<config, readonly>>
       ELSE /\ config' = Some(NPM_READONLY(env))
            /\ readonly' = ConstructReadonly(Some(NPM_READONLY(env)))
            /\ out' = IF entry = "server" /\ NPM_READONLY(env)
                        THEN Append(out, ReadonlyBanner) ELSE out
            /\ phase' = IF entry = "server" THEN "serving" ELSE "ready"
            /\ UNCHANGED exitCode
  /\ UNCHANGED <<token, tokenExpires, now, pc, method, arg, localTok, obtained,
                 startState, log, resp, result, authSinceStore>>
  /\ UNCHANGED <<peerVars, entry, env, argv, tool, rendered>>

(* ------------------------------- the CLI ------------------------------- *)

\* A number, or NaN.
NaN == [nan |-> TRUE, n |-> 0]

Number(n) == [nan |-> FALSE, n |-> n]

IsNaN(x) == x.nan

DecimalDigits == <<"0", "1", "2", "3", "4", "5", "6", "7", "8", "9">>

IsDigit(ch) == \E d \in 1 .. Len(DecimalDigits) : DecimalDigits[d] = ch

DigitValue(ch) == (CHOOSE d \in 1 .. Len(DecimalDigits) : DecimalDigits[d] = ch) - 1

RECURSIVE SkipWhitespace(_)
SkipWhitespace(s) ==
  IF s # <<>> /\ Head(s) = " " THEN SkipWhitespace(Tail(s)) ELSE s

\* The value of the longest prefix of s made of digits, NaN when it is empty.
RECURSIVE ReadDigits(_, _, _)
ReadDigits(s, acc, seen) ==
  IF s # <<>> /\ IsDigit(Head(s))
    THEN ReadDigits(Tail(s), acc * Len(DecimalDigits) + DigitValue(Head(s)), TRUE)
    ELSE IF seen THEN Number(acc) ELSE NaN

\* parseInt with every character required to be a digit.
ParseIntWhole(s) ==
  IF s # <<>> /\ \A i \in 1 .. Len(s) : IsDigit(s[i])
    THEN ReadDigits(s, 0, FALSE)
    ELSE NaN

\* parseInt(s) of a string given as its characters (no 0x prefix): leading
\* whitespace is skipped, a sign is read, then digits up to the first
\* character that is none; what follows is ignored.
ParseInt(s) ==
  LET t == SkipWhitespace(s)
      negative == t # <<>> /\ Head(t) = "-"
      u == IF t # <<>> /\ Head(t) \in {"+", "-"} THEN Tail(t) ELSE t
      v == ReadDigits(u, 0, FALSE)
  IN  IF IsNaN(v) THEN NaN
      ELSE IF negative THEN Number(0 - v.n)
      ELSE v

\* args[2] when fewer than three arguments were given: parseInt converts
\* undefined to the string "undefined".
AbsentArg == <<"u", "n", "d", "e", "f", "i", "n", "e", "d">>

\* Id arguments given on the command line: 1, 12abc, abc.
GivenIdArgs == {<<"1">>, <<"1", "2", "a", "b", "c">>, <<"a", "b", "c">>}

\* What `switch (subcommand)` dispatches to: the client method, whether the
\* case parses args[2] as an id first, and how it prints the result
\* ("json": print(result); "line": a line naming the id).
Route(m, takesId, output) == [method |-> m, takesId |-> takesId, output |-> output]

NoRoute == Route("none", FALSE, "none")

CliRoutes ==
     "proxy-hosts" :>
       [list |-> Route("listProxyHosts", FALSE, "json"),
        get |-> Route("getProxyHost", TRUE, "json"),
        create |-> Route("createProxyHost", FALSE, "json"),
        delete |-> Route("deleteProxyHost", TRUE, "line"),
        enable |-> Route("enableProxyHost", TRUE, "line"),
        disable |-> Route("disableProxyHost", TRUE, "line")]
  @@ "streams" :>
       [list |-> Route("listStreams", FALSE, "json"),
        get |-> Route("getStream", TRUE, "json"),
        create |-> Route("createStream", FALSE, "json"),
        delete |-> Route("deleteStream", TRUE, "line"),
        enable |-> Route("enableStream", TRUE, "line"),
        disable |-> Route("disableStream", TRUE, "line")]
  @@ "certificates" :>
       [list |-> Route("listCertificates", FALSE, "json"),
        get |-> Route("getCertificate", TRUE, "json"),
        renew |-> Route("renewCertificate", TRUE, "json"),
        delete |-> Route("deleteCertificate", TRUE, "line")]
  @@ "redirections" :>
       [list |-> Route("listRedirectionHosts", FALSE, "json"),
        get |-> Route("getRedirectionHost", TRUE, "json"),
        create |-> Route("createRedirectionHost", FALSE, "json"),
        delete |-> Route("deleteRedirectionHost", TRUE, "line")]
  @@ "access-lists" :>
       [list |-> Route("listAccessLists", FALSE, "json"),
        get |-> Route("getAccessList", TRUE, "json"),
        create |-> Route("createAccessList", FALSE, "json"),
        delete |-> Route("deleteAccessList", TRUE, "line")]
  @@ "dead-hosts" :>
       [list |-> Route("listDeadHosts", FALSE, "json"),
        get |-> Route("getDeadHost", TRUE, "json"),
        create |-> Route("createDeadHost", FALSE, "json"),
        delete |-> Route("deleteDeadHost", TRUE, "line")]
  @@ "users" :>
       [list |-> Route("listUsers", FALSE, "json"),
        get |-> Route("getUser", TRUE, "json")]

\* case "status"
StatusRoute == Route("getHealth", FALSE, "json")

\* First and second arguments given on the command line.
CommandArgs == DOMAIN CliRoutes \cup {"status", "help"}

SubcommandArgs ==
  {"list", "get", "create", "update", "delete", "enable", "disable", "renew"}

Argv(c, s, i) == [command |-> c, subcommand |-> s, id |-> i]

\* The command lines: no argument, a command, a command and a subcommand, and
\* a third argument after a subcommand.
Argvs ==
  {Argv(UNDEFINED, UNDEFINED, AbsentArg)}
    \cup {Argv(c, UNDEFINED, AbsentArg) : c \in CommandArgs}
    \cup {Argv(c, s, AbsentArg) : c \in CommandArgs \ {"status"}, s \in SubcommandArgs}
    \cup {Argv(c, s, i) : c \in DOMAIN CliRoutes,
                          s \in SubcommandArgs \ {"list", "create", "update"},
                          i \in GivenIdArgs}

\* Dispatch with a subcommand that has no case treated as `list`.
DispatchDefaultsToList(a) ==
  IF a.command = "status" THEN [kind |-> "route", route |-> StatusRoute]
  ELSE IF a.command \in DOMAIN CliRoutes
    THEN IF a.subcommand \in DOMAIN CliRoutes[a.command]
           THEN [kind |-> "route", route |-> CliRoutes[a.command][a.subcommand]]
           ELSE [kind |-> "route", route |-> CliRoutes[a.command]["list"]]
  ELSE [kind |-> "usage", route |-> NoRoute]

\* The branch of main's two switches the arguments select.
Dispatch(a) ==
  IF a.command = "status" THEN [kind |-> "route", route |-> StatusRoute]
  ELSE IF a.command \in DOMAIN CliRoutes
    THEN IF a.subcommand \in DOMAIN CliRoutes[a.command]
           THEN [kind |-> "route", route |-> CliRoutes[a.command][a.subcommand]]
           ELSE [kind |-> "subusage", route |-> NoRoute]
  ELSE [kind |-> "usage", route |-> NoRoute]

\* The usage text of the outer default branch, written to stderr.
FullUsageOnStderr == Stderr("usage", <<"Nginx Proxy Manager CLI">>)

\* console.log of the usage text, in the outer default branch.
FullUsage == Stdout("usage", <<"Nginx Proxy Manager CLI">>)

\* console.error("Usage: <command> [...]") of an inner default branch.
SubcommandUsage(command) == Stderr("usage", <<"Usage: ", command>>)

\* throw new Error("Invalid ID")
InvalidId == Failure("Error", <<"Invalid ID">>)

\* console.error("Error:", message) of main's catch.
ErrorLine(o) == Stderr("error", <<"Error: ">> \o o.message)

\* What a case prints after its client call resolved.
ResultOutput(route, id) ==
  IF route.output = "line" THEN Stdout("line", <<ToString(id)>>)
  ELSE Stdout("json", <<>>)

\* main after the client call it awaits has settled (pc'[1] = "done"): the
\* result is printed and the process ends with 0, or the catch block prints
\* the error and exits with 1.  While the call is pending main waits.
CliAwait(route) ==
  /\ IF pc'[1] = "done"
       THEN LET o == MethodOutcome(method'[1], result'[1]) IN
            /\ out' = Append(out, IF o.kind = "ok" THEN ResultOutput(route, arg'[1])
                                  ELSE ErrorLine(o))
            /\ exitCode' = IF o.kind = "ok" THEN 0 ELSE 1
            /\ phase' = "exited"
       ELSE /\ phase' = "running"
            /\ UNCHANGED <<out, exitCode>>
  /\ UNCHANGED <<peerVars, config, entry, env, argv, tool, rendered>>

\* main() up to its first await, or to its end.
CliMain ==
  /\ entry = "cli"
  /\ phase = "ready"
  /\ LET d == Dispatch(argv) IN
     IF d.kind = "route" /\ ~(d.route.takesId /\ IsNaN(ParseInt(argv.id)))
       THEN /\ Call(1, d.route.method,
                    IF d.route.takesId THEN ParseInt(argv.id).n ELSE 0)
            /\ CliAwait(d.route)
       ELSE /\ out' = Append(out, IF d.kind = "route" THEN ErrorLine(InvalidId)
                                  ELSE IF d.kind = "subusage"
                                    THEN SubcommandUsage(argv.command)
                                  ELSE FullUsage)
            /\ exitCode' = IF d.kind = "route" THEN 1 ELSE 0
            /\ phase' = "exited"
            /\ UNCHANGED <<readonly, token, tokenExpires, now, pc, method, arg,
                           localTok, obtained, startState, log, resp, result,
                           authSinceStore>>
            /\ UNCHANGED <<peerVars, config, entry, env, argv, tool, rendered>>

\* A response arrives while main awaits the client call.
CliResponse ==
  /\ entry = "cli"
  /\ phase = "running"
  /\ \/ \E r \in ResponsesTo("token") : AuthResponse(1, r)
     \/ \E r \in ResponsesTo("resource") : ResourceResponse(1, r)
     \/ \E r \in ResponsesTo("health") : HealthResponse(1, r)
  /\ CliAwait(Dispatch(argv).route)

\* A process is started: either entry point, any environment, any command line.
ProcessInit ==
  /\ entry \in {"cli", "server"}
  /\ env \in Environments
  /\ argv \in IF entry = "cli" THEN Argvs ELSE {NoArgv}
  /\ phase = "boot"
  /\ exitCode = -1
  /\ out = <<>>
  /\ tool = "none"
  /\ rendered = NoRendered
  /\ config = None
  /\ readonly = FALSE
  /\ Fresh

ProcessNext ==
  \/ Boot
  \/ CliMain
  \/ CliResponse

\* One run of the CLI, and the start of the server.
ProcessSpec == ProcessInit /\ [][ProcessNext]_vars

(* ----------------------------- the tool server ------------------------- *)

\* A registered tool: the client method its handler calls, whether it passes
\* an id, and the text of its result ("json": JSON.stringify of the value;
\* "report": a line and the JSON; "line": a line naming the id).
Tool(m, takesId, text) == [method |-> m, takesId |-> takesId, text |-> text]

Tools ==
  [list_proxy_hosts |-> Tool("listProxyHosts", FALSE, "json"),
   get_proxy_host |-> Tool("getProxyHost", TRUE, "json"),
   create_proxy_host |-> Tool("createProxyHost", FALSE, "report"),
   update_proxy_host |-> Tool("updateProxyHost", TRUE, "report"),
   delete_proxy_host |-> Tool("deleteProxyHost", TRUE, "line"),
   enable_proxy_host |-> Tool("enableProxyHost", TRUE, "line"),
   disable_proxy_host |-> Tool("disableProxyHost", TRUE, "line"),
   list_streams |-> Tool("listStreams", FALSE, "json"),
   create_stream |-> Tool("createStream", FALSE, "report"),
   delete_stream |-> Tool("deleteStream", TRUE, "line"),
   enable_stream |-> Tool("enableStream", TRUE, "line"),
   disable_stream |-> Tool("disableStream", TRUE, "line"),
   list_redirection_hosts |-> Tool("listRedirectionHosts", FALSE, "json"),
   create_redirection_host |-> Tool("createRedirectionHost", FALSE, "report"),
   delete_redirection_host |-> Tool("deleteRedirectionHost", TRUE, "line"),
   list_certificates |-> Tool("listCertificates", FALSE, "json"),
   get_certificate |-> Tool("getCertificate", TRUE, "json"),
   renew_certificate |-> Tool("renewCertificate", TRUE, "report"),
   delete_certificate |-> Tool("deleteCertificate", TRUE, "line"),
   list_access_lists |-> Tool("listAccessLists", FALSE, "json"),
   create_access_list |-> Tool("createAccessList", FALSE, "report"),
   delete_access_list |-> Tool("deleteAccessList", TRUE, "line"),
   list_dead_hosts |-> Tool("listDeadHosts", FALSE, "json"),
   create_dead_host |-> Tool("createDeadHost", FALSE, "report"),
   delete_dead_host |-> Tool("deleteDeadHost", TRUE, "line"),
   list_users |-> Tool("listUsers", FALSE, "json"),
   get_status |-> Tool("getHealth", FALSE, "json")]

ToolNames == DOMAIN Tools

\* A handler that returns the text of the error without flagging it.
ToolResultUnflagged(t, o) ==
  IF o.kind = "error"
    THEN [isError |-> FALSE, kind |-> Tools[t].text, text |-> <<"Error: ">> \o o.message]
    ELSE [isError |-> FALSE, kind |-> Tools[t].text, text |-> <<>>]

\* What a handler returns: the try branch after the client call resolved, the
\* catch branch after it rejected.
ToolResult(t, o) ==
  IF o.kind = "error"
    THEN [isError |-> TRUE, kind |-> "error", text |-> <<"Error: ">> \o o.message]
    ELSE [isError |-> FALSE, kind |-> Tools[t].text, text |-> <<>>]

\* A handler after the client call it awaits has settled: it returns.
ToolAwait(t) ==
  /\ rendered' = IF pc'[1] = "done"
                   THEN ToolResult(t, MethodOutcome(method'[1], result'[1]))
                   ELSE NoRendered
  /\ tool' = t
  /\ UNCHANGED <<peerVars, config, entry, env, argv, phase, exitCode, out>>

\* ToolCall with every handler calling the health operation.
ToolCallHealthOnly(t, id) ==
  /\ entry = "server"
  /\ phase = "serving"
  /\ tool = "none"
  /\ \A d \in Calls : Idle(d)
  /\ Call(1, "getHealth", 0)
  /\ ToolAwait(t)

\* The server receives a tool call: the handler up to its await.
ToolCall(t, id) ==
  /\ entry = "server"
  /\ phase = "serving"
  /\ tool = "none"
  /\ \A d \in Calls : Idle(d)
  /\ Call(1, Tools[t].method, id)
  /\ ToolAwait(t)

\* A response arrives while a handler awaits the client call.
ToolResponse ==
  /\ entry = "server"
  /\ tool # "none"
  /\ \/ \E r \in ResponsesTo("token") : AuthResponse(1, r)
     \/ \E r \in ResponsesTo("resource") : ResourceResponse(1, r)
     \/ \E r \in ResponsesTo("health") : HealthResponse(1, r)
  /\ ToolAwait(tool)

\* The result is sent; the server waits for the next tool call.
ToolDone ==
  /\ tool # "none"
  /\ Return(1)
  /\ tool' = "none"
  /\ rendered' = NoRendered
  /\ UNCHANGED <<peerVars, config, entry, env, argv, phase, exitCode, out>>

\* The server is started with its credentials, readonly or not.
ServerInit ==
  /\ entry = "server"
  /\ env \in {e \in Environments :
                ~MissingCredentials(e) /\ e.readonly \in {UNDEFINED, "true"}}
  /\ argv = NoArgv
  /\ phase = "boot"
  /\ exitCode = -1
  /\ out = <<>>
  /\ tool = "none"
  /\ rendered = NoRendered
  /\ config = None
  /\ readonly = FALSE
  /\ Fresh

ServerNext ==
  \/ Boot
  \/ \E t \in ToolNames : \E id \in ArgsOf(Tools[t].method) : ToolCall(t, id)
  \/ ToolResponse
  \/ ToolDone
  \/ Tick /\ ClientOnly

\* The server, handling one tool call after the other.
ServerSpec == ServerInit /\ [][ServerNext]_vars

(* ----------------------------- observation ----------------------------- *)

\* The mutating operations, by name: create*, update*, delete*, enable*,
\* disable*, renew*.
MutatingOperations ==
  {
   "createProxyHost", "updateProxyHost", "deleteProxyHost", "enableProxyHost",
   "disableProxyHost", "deleteCertificate", "renewCertificate", "createStream",
   "updateStream", "deleteStream", "enableStream", "disableStream",
   "createRedirectionHost", "updateRedirectionHost", "deleteRedirectionHost",
   "enableRedirectionHost", "disableRedirectionHost", "createDeadHost",
   "updateDeadHost", "deleteDeadHost", "enableDeadHost", "disableDeadHost",
   "createAccessList", "updateAccessList", "deleteAccessList"
  }

\* The read operations, by name: list*, get* and the health operation.
ReadOperations ==
  {
   "listProxyHosts", "getProxyHost", "listCertificates", "getCertificate",
   "listStreams", "getStream", "listRedirectionHosts", "getRedirectionHost",
   "listDeadHosts", "getDeadHost", "listAccessLists", "getAccessList", "listUsers",
   "getUser", "getHealth"
  }

Started(c) == pc[c] # "idle"

Settled(c) == pc[c] = "done"

\* The kinds of the requests call c has sent, in order.
KindsSent(c) == [i \in 1 .. Len(log[c]) |-> log[c][i].kind]

\* How many requests of the kind call c has sent.
Sent(c, kind) == Cardinality({i \in 1 .. Len(log[c]) : log[c][i].kind = kind})

\* The endpoint the last response received by call c came from.
AnsweredBy(c) == log[c][Len(log[c])].kind

\* Call c got a response with a status from the endpoint of the kind.
Answered(c, kind) ==
  /\ Settled(c)
  /\ resp[c].net = "resolved"
  /\ log[c] # <<>>
  /\ AnsweredBy(c) = kind

\* Call c fails with the readonly-violation error.
ReadonlyViolation(c) == Returned(c).kind = "error" /\ Returned(c).name = "ReadonlyModeError"

\* Call c runs request(): it is no health call and the guard let it pass.
OnRequestPath(c) ==
  /\ Started(c)
  /\ method[c] # "getHealth"
  /\ ~(readonly /\ method[c] \in MutatingOperations)

(* ------------------------------- claims -------------------------------- *)

\* C1: with the readonly flag set, every mutating operation fails with the
\* readonly-violation error and has sent no request at all, neither a token
\* request nor a resource request, whatever the state of the token cache.
C1_ReadonlyBlocksMutations ==
  \A c \in Calls :
    (Started(c) /\ readonly /\ method[c] \in MutatingOperations) =>
      /\ Settled(c)
      /\ ReadonlyViolation(c)
      /\ log[c] = <<>>

\* C1 witness: a mutating call was blocked while the cache held an expired token.
C1_Witness ==
  \E c \in Calls :
    /\ readonly
    /\ Settled(c)
    /\ method[c] \in MutatingOperations
    /\ ReadonlyViolation(c)
    /\ Truthy(token)
    /\ CacheState(token, tokenExpires, now) = "Expired"

\* C2: read operations are never gated: with the readonly flag set, a list*,
\* get* or health call never fails with the readonly-violation error and its
\* first request is the one it sends with the flag unset: GET /api/ for health,
\* else the resource request when the call started with a valid token and the
\* token request when it did not.
C2_ReadsNeverGated ==
  \A c \in Calls :
    (Started(c) /\ readonly /\ method[c] \in ReadOperations) =>
      /\ ~ReadonlyViolation(c)
      /\ log[c] # <<>>
      /\ log[c][1].kind =
           IF method[c] = "getHealth" THEN "health"
           ELSE IF startState[c] = "Valid" THEN "resource"
           ELSE "token"

\* C2 witness: in readonly mode a get call has completed successfully.
C2_Witness ==
  \E c \in Calls :
    /\ readonly
    /\ Settled(c)
    /\ method[c] = "getStream"
    /\ Returned(c).kind = "ok"
    /\ Sent(c, "resource") = 1

\* C3: the readonly-violation error of a mutating method carries the name of
\* that method and the words "readonly mode", and the name of no other
\* operation.
C3_ErrorNamesOperation ==
  \A c \in Calls :
    (Settled(c) /\ readonly /\ method[c] \in MutatingOperations) =>
      /\ Returned(c).name = "ReadonlyModeError"
      /\ Contains(Returned(c).message, method[c])
      /\ Contains(Returned(c).message, "readonly mode")
      /\ \A m \in MethodNames \ {method[c]} : ~Contains(Returned(c).message, m)

\* C3 witness: deleteStream was blocked in readonly mode.
C3_Witness ==
  \E c \in Calls :
    /\ readonly
    /\ Settled(c)
    /\ method[c] = "deleteStream"
    /\ arg[c] = 1
    /\ Contains(Returned(c).message, "deleteStream")
    /\ log[c] = <<>>

\* C4: token reuse.  While the cache holds a token and the time is before its
\* stored expiry, no token request has been sent since the one whose response
\* filled the cache, and a call that started in that window has sent none: the
\* calls of one validity window trigger exactly one authentication request.
\* (A stored empty token is no cached token.)
C4_TokenReuse ==
  /\ CacheState(token, tokenExpires, now) = "Valid" => ~authSinceStore
  /\ \A c \in Calls :
       (OnRequestPath(c) /\ startState[c] = "Valid") =>
         /\ Sent(c, "token") = 0
         /\ Sent(c, "resource") = 1

\* C4 witness: a call that started inside the validity window of a token
\* obtained by an earlier call has completed.
C4_Witness ==
  \E c \in Calls :
    /\ Settled(c)
    /\ OnRequestPath(c)
    /\ startState[c] = "Valid"
    /\ Returned(c).kind = "ok"
    /\ log[c][1].auth = <<"Bearer", token>>

\* C5: transparent re-authentication.  A call on the request path that
\* started at or after the stored expiry sends exactly one token request, sends
\* its resource request only after the token response, and that request
\* carries the token the response brought.
C5_Reauthentication ==
  \A c \in Calls :
    (OnRequestPath(c) /\ startState[c] = "Expired") =>
      /\ log[c] # <<>>
      /\ log[c][1].kind = "token"
      /\ Sent(c, "token") = 1
      /\ Len(log[c]) > 1 =>
           /\ KindsSent(c) = <<"token", "resource">>
           /\ log[c][2].auth = <<"Bearer", obtained[c]>>

\* C5 witness: a call that started with an expired token "t1" has sent its
\* resource request with the newly obtained token "t2".
C5_Witness ==
  \E c \in Calls :
    /\ OnRequestPath(c)
    /\ startState[c] = "Expired"
    /\ Len(log[c]) = 2
    /\ obtained[c] = "t2"
    /\ log[c][2].auth = <<"Bearer", "t2">>
    /\ Settled(c)

\* C6 as stated: every request other than the token request carries an
\* Authorization: Bearer header, the health request included.
C6_EveryRequestCarriesBearer ==
  \A c \in Calls : \A i \in 1 .. Len(log[c]) :
    log[c][i].kind # "token" =>
      /\ Len(log[c][i].auth) = 2
      /\ log[c][i].auth[1] = "Bearer"

\* C6 amended: every request sent by request(), that is by every list, get,
\* create, update, delete, enable, disable and renew operation, carries
\* Authorization: Bearer <token> with the token ensureToken returned to that
\* call; the token request and the health request (GET /api/) carry no
\* Authorization header.
C6_ResourceRequestsCarryBearer ==
  \A c \in Calls : \A i \in 1 .. Len(log[c]) :
    IF log[c][i].kind = "resource"
      THEN log[c][i].auth = <<"Bearer", localTok[c]>>
      ELSE log[c][i].auth = <<>>

\* C6 witness: a resource request went out with a bearer token.
C6_Witness ==
  \E c \in Calls :
    /\ Sent(c, "resource") = 1
    /\ localTok[c] = "t1"
    /\ log[c][Len(log[c])].auth = <<"Bearer", "t1">>
    /\ method[c] = "updateDeadHost"

C8_NoContent ==
  \A c \in Calls :
    (Answered(c, "resource") /\ resp[c].status \in 200 .. 299) =>
      IF resp[c].status = 204
        THEN result[c] = Success(EmptyObject)
        ELSE IF JsonDecode(resp[c].body).valid
        THEN result[c] = Success(JsonDecode(resp[c].body))
        ELSE result[c].kind = "error" /\ result[c].name = "SyntaxError"

\* C8 witness: a 204 response with an empty body was turned into a success.
C8_Witness ==
  \E c \in Calls :
    /\ Answered(c, "resource")
    /\ resp[c].status = 204
    /\ resp[c].body = ""
    /\ result[c].kind = "ok"

\* C9: when the token endpoint answers non-2xx the call fails with the
\* authentication error, having sent exactly one token request and no
\* resource request.
C9_AuthFailureFatal ==
  \A c \in Calls :
    (Answered(c, "token") /\ ~(resp[c].status \in 200 .. 299)) =>
      /\ Returned(c).kind = "error"
      /\ Contains(Returned(c).message, "Authentication failed: ")
      /\ Sent(c, "token") = 1
      /\ Sent(c, "resource") = 0

\* C9 witness: the token endpoint answered 500 and the call failed.
C9_Witness ==
  \E c \in Calls :
    /\ Answered(c, "token")
    /\ resp[c].status = 500
    /\ Returned(c).kind = "error"
    /\ method[c] = "listUsers"

\* The orders in which one call may send requests.
AllowedOrders ==
  {<<>>, <<"token">>, <<"token", "resource">>, <<"resource">>, <<"health">>}

\* C10: one call sends at most one token request followed by at most one
\* resource request, in that order, and once it has failed or succeeded it
\* sends nothing more: from a settled call, the only step is the caller taking
\* the result.
C10_NoRetry ==
  [][\A c \in Calls :
       /\ KindsSent(c)' \in AllowedOrders
       /\ Settled(c) => (Settled(c)' /\ log'[c] = log[c]) \/ ~Started(c)']_vars

\* C10 witness: a call has failed on its resource request after one token
\* request and one resource request.
C10_Witness ==
  \E c \in Calls :
    /\ Answered(c, "resource")
    /\ resp[c].status = 404
    /\ Returned(c).kind = "error"
    /\ KindsSent(c) = <<"token", "resource">>

\* The lifecycle state of the cache with the three names of the statechart:
\* whatever is stored and not served counts as Expired.
Lifecycle(tok, exp, t) ==
  IF CacheState(tok, exp, t) = "Unusable" THEN "Expired" ELSE CacheState(tok, exp, t)

\* A step in which a call receives a token response that grants a token.
TokenGranted == \E c \in Calls : pc[c] = "auth_wait" /\ pc'[c] = "res_wait"

\* C11 as stated: once a token is cached the lifecycle never returns to Absent,
\* and the lifecycle changes only from Absent to Valid by authentication, from
\* Valid to Expired by the passage of time, from Expired to Valid by
\* re-authentication.
C11_OnlyThreeTransitions ==
  [][Lifecycle(token, tokenExpires, now) # Lifecycle(token', tokenExpires', now') =>
       \/ /\ Lifecycle(token, tokenExpires, now) = "Absent"
          /\ Lifecycle(token', tokenExpires', now') = "Valid"
          /\ TokenGranted
       \/ /\ Lifecycle(token, tokenExpires, now) = "Valid"
          /\ Lifecycle(token', tokenExpires', now') = "Expired"
          /\ now' > now
          /\ UNCHANGED <<token, tokenExpires>>
       \/ /\ Lifecycle(token, tokenExpires, now) = "Expired"
          /\ Lifecycle(token', tokenExpires', now') = "Valid"
          /\ TokenGranted]_vars

\* C11, amended: once something is cached the lifecycle never returns to
\* Absent; the cached token and expiry are written only when a token response
\* grants a token, and no other step, failed calls included, changes them;
\* while they are unchanged the lifecycle changes only from Valid to Expired,
\* as time passes.  (What a granting response stores may be Valid or not.)
C11_CacheNeverCleared ==
  [][/\ Lifecycle(token, tokenExpires, now) # "Absent" =>
          Lifecycle(token', tokenExpires', now') # "Absent"
     /\ <<token, tokenExpires>>' # <<token, tokenExpires>> => TokenGranted
     /\ /\ UNCHANGED <<token, tokenExpires>>
        /\ Lifecycle(token, tokenExpires, now) # Lifecycle(token', tokenExpires', now')
        => /\ Lifecycle(token, tokenExpires, now) = "Valid"
           /\ Lifecycle(token', tokenExpires', now') = "Expired"
           /\ now' > now]_vars

\* A call that found the cache expired has failed to re-authenticate, and the
\* expired token is still cached.
C11_Witness ==
  \E c \in Calls :
    /\ Settled(c)
    /\ startState[c] = "Expired"
    /\ Returned(c).kind = "error"
    /\ Sent(c, "token") = 1
    /\ Lifecycle(token, tokenExpires, now) = "Expired"
    /\ token \in {"t1", "t2"}

\* Whether a response makes the call that receives it fail.
Refusal(r) ==
  \/ r.net = "rejected"
  \/ r.status \notin 200 .. 299
  \/ r.status # 204 /\ ~JsonParse(r.body).valid

\* C12: when calls race on a cache that is not valid, each sends at most one
\* token request of its own, every resource request carries a token that a
\* granting token response returned, and a call fails only if it is refused by
\* the readonly guard or by a response it received itself.
C12_RaceHarmless ==
  \A c \in Calls :
    /\ Sent(c, "token") <= 1
    /\ \A i \in 1 .. Len(log[c]) :
         log[c][i].kind = "resource" =>
           \E t \in issued["A"] : log[c][i].auth = <<"Bearer", t>>
    /\ Settled(c) /\ Returned(c).kind = "error" =>
         ReadonlyViolation(c) \/ Refusal(resp[c])

\* Two calls that both started on the empty cache have each authenticated,
\* each sent its resource request with the token it was granted, and both
\* succeeded.
C12_Witness ==
  \E c \in Calls : \E d \in Calls \ {c} :
    /\ Settled(c) /\ Settled(d)
    /\ startState[c] = "Absent" /\ startState[d] = "Absent"
    /\ Sent(c, "token") = 1 /\ Sent(d, "token") = 1
    /\ Returned(c).kind = "ok" /\ Returned(d).kind = "ok"
    /\ obtained[c] = "t1" /\ obtained[d] = "t2"
    /\ log[c][2].auth = <<"Bearer", "t1">>
    /\ log[d][2].auth = <<"Bearer", "t2">>

\* C13: the token state belongs to the instance: a step of a call on one
\* instance leaves the cached token and expiry of the other unchanged, and
\* every resource request of a call carries a token that a token response to
\* its own instance returned.
C13_TokenOwnedPerInstance ==
  /\ [][/\ (\E c \in PeerCalls : pc'[c] # pc[c]) => UNCHANGED <<token, tokenExpires>>
        /\ pc'[1] # pc[1] => UNCHANGED <<peerToken, peerExpires>>]_vars
  /\ [](\A c \in Calls : \A i \in 1 .. Len(log[c]) :
          log[c][i].kind = "resource" =>
            \E t \in issued[Owner(c)] : log[c][i].auth = <<"Bearer", t>>)

\* The first instance holds a valid token t1; a call on the second instance
\* has authenticated on its own, was granted t2 and sent it; the first
\* instance still holds t1.
C13_Witness ==
  \E c \in PeerCalls :
    /\ token = "t1" /\ CacheState(token, tokenExpires, now) = "Valid"
    /\ issued["A"] = {"t1"} /\ issued["B"] = {"t2"}
    /\ Settled(c) /\ Returned(c).kind = "ok"
    /\ Sent(c, "token") = 1
    /\ log[c][2].auth = <<"Bearer", "t2">>
    /\ peerToken = "t2"

\* C14: the readonly flag is what the constructor was given, read-write when
\* it was given nothing, and no step changes it: isReadonly reads the same in
\* every reachable state.
C14_ReadonlyImmutable ==
  /\ [](IsReadonly = (config = {TRUE}))
  /\ [][IsReadonly' = IsReadonly /\ readonly' = readonly]_vars

\* A client built without the readonly option has completed a mutation and
\* still reads read-write.
C14_Witness ==
  /\ config = {}
  /\ ~IsReadonly
  /\ method[1] \in MutatingOperations
  /\ Settled(1)
  /\ Returned(1).kind = "ok"
  /\ token # NULL

\* A credential that is absent or empty.
CredentialAbsent(v) == v \in {UNDEFINED, ""}

Misconfigured == CredentialAbsent(env.email) \/ CredentialAbsent(env.password)

\* No client method has been called and no request has been sent.
ClientUntouched ==
  \A c \in Calls : pc[c] = "idle" /\ method[c] = "none" /\ log[c] = <<>>

\* C15: in both entry points, when NPM_EMAIL or NPM_PASSWORD is absent or
\* empty the process exits with code 1 at startup: no client is constructed,
\* no command or tool is dispatched, no request is sent.
C15_MissingCredentialsFatal ==
  phase # "boot" /\ Misconfigured =>
    /\ phase = "failed"
    /\ exitCode = 1
    /\ config = {}
    /\ ClientUntouched
    /\ tool = "none"
    /\ Len(out) = 1 /\ out[1].stream = "stderr"

\* The server was started with an email and an empty password, and has exited
\* with 1.
C15_Witness ==
  /\ entry = "server"
  /\ env.email = "admin@example.com"
  /\ env.password = ""
  /\ phase = "failed"
  /\ exitCode = 1

\* C16: in the server and in the CLI alike, the client is readonly exactly
\* when NPM_READONLY is the string "true"; "TRUE", "1", the empty string and
\* an unset variable all give a read-write client.
C16_ReadonlyExactlyTrue ==
  phase \notin {"boot", "failed"} =>
    /\ IsReadonly <=> env.readonly = "true"
    /\ config = {env.readonly = "true"}

\* The CLI was run with NPM_READONLY=TRUE and has completed a mutation.
C16_Witness ==
  /\ entry = "cli"
  /\ env.readonly = "TRUE"
  /\ phase = "exited"
  /\ method[1] \in MutatingOperations
  /\ Returned(1).kind = "ok"
  /\ Len(log[1]) = 2
  /\ exitCode = 0

\* The subcommands that take an id, by command.
IdSubcommands ==
  {<<"proxy-hosts", "get">>, <<"proxy-hosts", "delete">>, <<"proxy-hosts", "enable">>,
   <<"proxy-hosts", "disable">>, <<"streams", "get">>, <<"streams", "delete">>,
   <<"streams", "enable">>, <<"streams", "disable">>, <<"certificates", "get">>,
   <<"certificates", "renew">>, <<"certificates", "delete">>,
   <<"redirections", "get">>, <<"redirections", "delete">>,
   <<"access-lists", "get">>, <<"access-lists", "delete">>,
   <<"dead-hosts", "get">>, <<"dead-hosts", "delete">>, <<"users", "get">>}

\* Whether an argument is a number: one or more decimal digits, nothing else.
Numeric(s) ==
  /\ s # <<>>
  /\ \A i \in 1 .. Len(s) :
       s[i] \in {"0", "1", "2", "3", "4", "5", "6", "7", "8", "9"}

\* The command line names an id-taking subcommand with an id that is missing
\* or not a number.
InvalidIdGiven ==
  <<argv.command, argv.subcommand>> \in IdSubcommands /\ ~Numeric(argv.id)

\* The last thing the process wrote is an error message on stderr.
ErrorPrinted ==
  /\ out # <<>>
  /\ out[Len(out)].stream = "stderr"
  /\ out[Len(out)].kind = "error"

\* C17: the CLI ends with exit code 0 when the dispatched command succeeds,
\* and with exit code 1, after printing an error message, on any error:
\* missing credentials, an invalid id, a client call that failed (readonly
\* violation, authentication failure, remote API error).
C17_ExitCodes ==
  entry = "cli" /\ phase \in {"failed", "exited"} =>
    IF \/ Misconfigured
       \/ InvalidIdGiven
       \/ Settled(1) /\ Returned(1).kind = "error"
      THEN exitCode = 1 /\ ErrorPrinted
      ELSE exitCode = 0

\* C18: for every id-taking subcommand, an id argument that is missing or not
\* a number is fatal: an error is printed, the exit code is 1, no client
\* method is called and no request is sent.
C18_InvalidIdFatal ==
  entry = "cli" /\ phase \in {"running", "exited"} /\ InvalidIdGiven =>
    /\ phase = "exited"
    /\ exitCode = 1
    /\ ErrorPrinted
    /\ ClientUntouched

\* The commands main's outer switch has a case for.
KnownCommands ==
  {"status", "proxy-hosts", "streams", "certificates", "redirections",
   "access-lists", "dead-hosts", "users"}

\* C19: when the first argument is no known command, or there is no argument,
\* the CLI prints the full usage text to stdout, and nothing else, and calls
\* no client method.
C19_UnknownCommandPrintsUsage ==
  entry = "cli" /\ phase \in {"running", "exited"} /\ argv.command \notin KnownCommands =>
    /\ phase = "exited"
    /\ Len(out) = 1
    /\ out[1].stream = "stdout"
    /\ out[1].kind = "usage"
    /\ out[1].text = <<"Nginx Proxy Manager CLI">>
    /\ ClientUntouched

\* The CLI was run without arguments and has printed the usage text.
C19_Witness ==
  /\ entry = "cli"
  /\ argv.command = UNDEFINED
  /\ phase = "exited"
  /\ out = <<[stream |-> "stdout", kind |-> "usage", text |-> <<"Nginx Proxy Manager CLI">>]>>

\* C20: a tool handler always returns a result; once the client call it made
\* has settled, the result is flagged isError with the text "Error: <message>"
\* exactly when the call failed, and is the success text without the flag
\* otherwise.  Nothing is written and the server keeps serving.
C20_HandlerAlwaysReturns ==
  entry = "server" /\ Settled(1) =>
    /\ phase = "serving"
    /\ exitCode = -1
    /\ rendered.kind # "none"
    /\ rendered.isError <=> Returned(1).kind = "error"
    /\ Returned(1).kind = "error" =>
         /\ rendered.text[1] = "Error: "
         /\ Tail(rendered.text) = Returned(1).message
    /\ Returned(1).kind = "ok" =>
         rendered.kind \in {"json", "report", "line"}

\* delete_stream was called on the readonly server: the handler returned the
\* readonly error as a flagged result.
C20_Witness ==
  /\ entry = "server"
  /\ tool = "delete_stream"
  /\ Settled(1)
  /\ ReadonlyViolation(1)
  /\ rendered.isError
  /\ rendered.text =
       <<"Error: ", "Operation \"", "deleteStream", "\" is not allowed in ", "readonly mode">>

\* The client method a registered tool's handler calls.
MethodOf(t) == Tools[t].method

\* The tools whose handler calls the method.
ToolsOf(m) == {t \in ToolNames : MethodOf(t) = m}

\* The operations of the client that no registered tool calls.
WithoutTool ==
  {
   "getStream", "updateStream", "getRedirectionHost", "updateRedirectionHost",
   "enableRedirectionHost", "disableRedirectionHost", "getDeadHost",
   "updateDeadHost", "enableDeadHost", "disableDeadHost", "getAccessList",
   "updateAccessList", "getUser"
  }

\* C21 as stated: every list/get/create/update/delete/enable/disable/renew
\* method of the client is called by exactly one registered tool, and every
\* registered tool calls exactly one client method.
C21_ToolPerOperation ==
  /\ \A m \in RequestMethods : Cardinality(ToolsOf(m)) = 1
  /\ \A t \in ToolNames : MethodOf(t) \in MethodNames
  /\ tool # "none" => Started(1) /\ method[1] = MethodOf(tool)

\* C21: every registered tool calls exactly one client method, the one its
\* registration names, and no two tools call the same method; thirteen of the
\* thirty-nine resource methods are called by no tool at all, and the health
\* operation is called by get_status.
C21_ToolCallsOneOperation ==
  /\ \A t \in ToolNames : MethodOf(t) \in MethodNames
  /\ \A m \in MethodNames : Cardinality(ToolsOf(m)) <= 1
  /\ {m \in MethodNames : ToolsOf(m) = {}} = WithoutTool
  /\ ToolsOf("getHealth") = {"get_status"}
  /\ tool # "none" =>
       /\ Started(1)
       /\ method[1] = MethodOf(tool)
       /\ \A c \in Calls \ {1} : Idle(c)

\* renew_certificate was called on the read-write server and its one client
\* call, renewCertificate, has settled with the answer of the resource request.
C21_Witness ==
  /\ entry = "server"
  /\ tool = "renew_certificate"
  /\ method[1] = "renewCertificate"
  /\ Settled(1)
  /\ Answered(1, "resource")
  /\ Returned(1).kind = "ok"

\* The operations by the kind their name starts with.
ListOperations ==
  {"listProxyHosts", "listCertificates", "listStreams", "listRedirectionHosts",
   "listDeadHosts", "listAccessLists", "listUsers"}

GetOperations ==
  {"getProxyHost", "getCertificate", "getStream", "getRedirectionHost",
   "getDeadHost", "getAccessList", "getUser"}

CreateOperations ==
  {"createProxyHost", "createStream", "createRedirectionHost", "createDeadHost",
   "createAccessList"}

UpdateOperations ==
  {"updateProxyHost", "updateStream", "updateRedirectionHost", "updateDeadHost",
   "updateAccessList"}

DeleteOperations ==
  {"deleteProxyHost", "deleteCertificate", "deleteStream", "deleteRedirectionHost",
   "deleteDeadHost", "deleteAccessList"}

EnableOperations ==
  {"enableProxyHost", "enableStream", "enableRedirectionHost", "enableDeadHost"}

DisableOperations ==
  {"disableProxyHost", "disableStream", "disableRedirectionHost", "disableDeadHost"}

RenewOperations == {"renewCertificate"}

\* The verb and the shape of the path the claim gives the operation: on the
\* collection (no id in the path) or on the item, with a sub-path or without.
VerbAndShape(m) ==
  CASE m \in ListOperations -> <<"GET", "collection", "">>
    [] m \in GetOperations -> <<"GET", "item", "">>
    [] m \in CreateOperations -> <<"POST", "collection", "">>
    [] m \in UpdateOperations -> <<"PUT", "item", "">>
    [] m \in DeleteOperations -> <<"DELETE", "item", "">>
    [] m \in EnableOperations -> <<"POST", "item", "/enable">>
    [] m \in DisableOperations -> <<"POST", "item", "/disable">>
    [] m \in RenewOperations -> <<"POST", "item", "/renew">>

\* The verb and the path of a request that was sent.
Endpoint(q) == <<q.verb, q.base, q.id, q.sub>>

\* The resource request call c has sent.
ResourceRequestOf(c) == log[c][Len(log[c])]

ResourceRequestSent(c) ==
  /\ log[c] # <<>>
  /\ ResourceRequestOf(c).kind = "resource"

\* C22: every operation has a verb and path of its own: the resource request a
\* call sends is GET for list and get, POST on the collection for create, PUT
\* on the item for update, DELETE on the item for delete and POST on the
\* item's /enable, /disable or /renew sub-path for enable, disable and renew,
\* and no other operation, with whatever id, sends a request with that verb
\* and path.
C22_OneEndpointPerOperation ==
  \A c \in Calls :
    ResourceRequestSent(c) =>
      LET q == ResourceRequestOf(c)
          m == method[c]
      IN /\ m \in ListOperations \cup GetOperations \cup CreateOperations
                    \cup UpdateOperations \cup DeleteOperations
                    \cup EnableOperations \cup DisableOperations
                    \cup RenewOperations
         /\ q.verb = VerbAndShape(m)[1]
         /\ (VerbAndShape(m)[2] = "item") <=> (q.id = arg[c] /\ q.id \in Ids)
         /\ (VerbAndShape(m)[2] = "collection") <=> (q.id = 0)
         /\ q.sub = VerbAndShape(m)[3]
         /\ \A m2 \in RequestMethods \ {m} : \A i \in ArgsOf(m2) :
              Endpoint(ResourceRequest(m2, i, NULL)) # Endpoint(q)

\* disableStream was called with id 1 and its resource request, POST on
\* /nginx/streams/1/disable, was answered.
C22_Witness ==
  \E c \in Calls :
    /\ method[c] = "disableStream"
    /\ arg[c] = 1
    /\ Answered(c, "resource")
    /\ Endpoint(ResourceRequestOf(c)) = <<"POST", "/nginx/streams", 1, "/disable">>

\* Call c starts in this step and runs request().
Starts(c) == Idle(c) /\ ~Idle(c)' /\ OnRequestPath(c)'

\* A token and the date of its expiry are cached.
TokenCached == token \notin {NULL, UNDEFINED, ""} /\ tokenExpires.kind = "time"

\* Call c has reused the cached token: its first request is the resource
\* request, carrying that token.
Reuses(c) ==
  /\ KindsSent(c)' = <<"resource">>
  /\ log'[c][1].auth = <<"Bearer", token>>

\* Call c has re-authenticated: its first request is the token request.
Reauthenticates(c) == KindsSent(c)' = <<"token">>

\* C23: a cached token is expired exactly when the current time is at or after
\* the stored expiry: a call that starts at or after the expiry, the instant
\* of the expiry included, sends a token request, and a call that starts
\* strictly before it sends its resource request with the cached token.
C23_ExpiredAtExpiry ==
  [][\A c \in Calls :
       Starts(c) /\ TokenCached =>
         /\ now >= tokenExpires.t <=> Reauthenticates(c)
         /\ now < tokenExpires.t <=> Reuses(c)
         /\ UNCHANGED <<token, tokenExpires, now>>]_vars

\* A call that started at the very instant the cached token expires waits for
\* the answer to its token request.
C23_Witness ==
  \E c \in Calls :
    /\ pc[c] = "auth_wait"
    /\ OnRequestPath(c)
    /\ token \notin {NULL, UNDEFINED, ""}
    /\ tokenExpires = [kind |-> "time", t |-> now]
    /\ KindsSent(c) = <<"token">>

\* The response call c got was a non-2xx status.
Non2xx(c) == resp[c].net = "resolved" /\ resp[c].status \notin 200 .. 299

\* Call c fails in this step on a non-2xx answer to its token request or to
\* its resource request.
FailsOnNon2xx(c) ==
  /\ ~Settled(c)
  /\ Settled(c)'
  /\ Non2xx(c)'
  /\ AnsweredBy(c)' \in {"token", "resource"}
  /\ Returned(c)'.kind = "error"

\* The token request of call c is answered in this step with a 2xx status.
TokenRequestGranted(c) ==
  /\ ~Settled(c)
  /\ log[c] # <<>>
  /\ AnsweredBy(c) = "token"
  /\ resp'[c].net = "resolved"
  /\ resp'[c].status \in 200 .. 299

PairOf(r) == <<JsonParse(r.body).token, ParseDate(JsonParse(r.body).expires)>>

\* Call c receives the answer to its token request in this step, and the
\* answer grants a token.
ReceivesGrant(c) ==
  /\ pc[c] = "auth_wait"
  /\ pc'[c] # "auth_wait"
  /\ Granted(resp'[c])

\* C26: the cached token and the cached expiry are both unset or both set, and
\* under every interleaving of calls on one client a step that changes either
\* of them stores the token and the expiry of one authentication response,
\* the one a call receives in that step.
C26_TokenAndExpiryPaired ==
  /\ [](token = NULL <=> tokenExpires = NullDate)
  /\ [][<<token, tokenExpires>>' # <<token, tokenExpires>> =>
          \E c \in Calls :
            /\ ReceivesGrant(c)
            /\ <<token, tokenExpires>>' = PairOf(resp'[c])]_vars

\* Two racing calls were granted different tokens with different expiries;
\* the cache holds the pair of the response that arrived last.
C26_Witness ==
  \E c \in Calls : \E d \in Calls \ {c} :
    /\ pc[c] = "res_wait" /\ pc[d] = "res_wait"
    /\ resp[c] = HttpResponse(200, TokenJson("t1", "3"))
    /\ resp[d] = HttpResponse(200, TokenJson("t2", "1"))
    /\ token = "t2"
    /\ tokenExpires = [kind |-> "time", t |-> 1]

\* ensureToken has returned to call c and request() has not yet sent its
\* resource request.
TokenReady(c) == pc[c] = "token_ready"

\* C27: the resource request of a call carries the token its own ensureToken
\* step returned: the token that was cached when the step ran, or the token of
\* the response the call itself was granted, whatever expiry came with it; the
\* value stays the call's own while other calls overwrite the cache, and the
\* request is sent with it and at no other moment.
C27_OwnTokenSent ==
  [][\A c \in Calls :
       /\ Idle(c) /\ TokenReady(c)' => localTok'[c] = token
       /\ pc[c] = "auth_wait" /\ TokenReady(c)' => localTok'[c] = PairOf(resp'[c])[1]
       /\ TokenReady(c) /\ TokenReady(c)' => localTok'[c] = localTok[c]
       /\ TokenReady(c) /\ ~TokenReady(c)' =>
            /\ Len(log'[c]) = Len(log[c]) + 1
            /\ ResourceRequestOf(c)'.kind = "resource"
            /\ ResourceRequestOf(c)'.auth = <<"Bearer", localTok[c]>>
       /\ Sent(c, "resource")' > Sent(c, "resource") => TokenReady(c)]_vars

\* A call that started on an expired cache was granted t1 with an expiry
\* already past and has sent its resource request with t1, while the cache
\* holds t2, stored by the other call.
C27_Witness ==
  \E c \in Calls : \E d \in Calls \ {c} :
    /\ startState[c] = "Expired"
    /\ pc[c] = "res_wait"
    /\ resp[c] = HttpResponse(200, TokenJson("t1", "1"))
    /\ ResourceRequestOf(c).auth = <<"Bearer", "t1">>
    /\ now >= 1
    /\ obtained[d] = "t2"
    /\ token = "t2"

\* The cache holds what an authentication response carried, and that is an
\* empty or missing token, an expiry that is no date, or an expiry not later
\* than the current time.
Uncacheable ==
  /\ ~(token = NULL /\ tokenExpires = NullDate)
  /\ \/ token \in {"", UNDEFINED}
     \/ tokenExpires.kind = "invalid"
     \/ tokenExpires.kind = "time" /\ tokenExpires.t <= now

\* C28: what such an authentication response stored is never served from the
\* cache: a call that starts while the cache holds it sends a token request,
\* one per call, and a call whose token request is granted, cacheable or not,
\* goes on to send its resource request with the token it was granted.
C28_UncacheableNeverServed ==
  /\ [](\A c \in Calls : Sent(c, "token") <= 1)
  /\ [][\A c \in Calls :
          /\ Starts(c) /\ Uncacheable => Reauthenticates(c)
          /\ pc[c] = "auth_wait" /\ Granted(resp'[c]) =>
               /\ KindsSent(c)' = <<"token", "resource">>
               /\ ResourceRequestOf(c)'.auth = <<"Bearer", PairOf(resp'[c])[1]>>
               /\ ~Settled(c)']_vars

\* A call that started on a cache holding an unusable response was itself
\* granted an empty token expiring at instant 3; it sent its token request and
\* then its resource request.
C28_Witness ==
  \E c \in Calls :
    /\ startState[c] = "Unusable"
    /\ pc[c] = "res_wait"
    /\ resp[c] = HttpResponse(200, TokenJson("", "3"))
    /\ token = ""
    /\ KindsSent(c) = <<"token", "resource">>
    /\ ResourceRequestOf(c).auth = <<"Bearer", "">>

\* The resource commands and the subcommands each of them recognises.
ResourceCommands ==
  {"proxy-hosts", "streams", "certificates", "redirections", "access-lists",
   "dead-hosts", "users"}

SubcommandsOf(command) ==
  CASE command \in {"proxy-hosts", "streams"} ->
         {"list", "get", "create", "delete", "enable", "disable"}
    [] command = "certificates" -> {"list", "get", "renew", "delete"}
    [] command \in {"redirections", "access-lists", "dead-hosts"} ->
         {"list", "get", "create", "delete"}
    [] command = "users" -> {"list", "get"}

\* The command line names a resource command with no subcommand or with one
\* the command does not recognise.
UnknownSubcommand ==
  /\ argv.command \in ResourceCommands
  /\ argv.subcommand \notin SubcommandsOf(argv.command)

\* C29: for a resource command with a missing or unrecognised subcommand the
\* CLI, readonly or not, prints that command's usage line and nothing else,
\* calls no client method and sends no request, and ends without the exit
\* code 1 of the error path.
C29_UnknownSubcommandPrintsUsage ==
  entry = "cli" /\ phase \in {"running", "exited"} /\ UnknownSubcommand =>
    /\ phase = "exited"
    /\ Len(out) = 1
    /\ out[1].kind = "usage"
    /\ out[1].text = <<"Usage: ", argv.command>>
    /\ ClientUntouched
    /\ exitCode # 1

\* `users enable` was run in readonly mode: the usage line of users was
\* printed and the process ended with code 0, the client untouched.
C29_Witness ==
  /\ entry = "cli"
  /\ readonly
  /\ argv.command = "users"
  /\ argv.subcommand = "enable"
  /\ phase = "exited"
  /\ exitCode = 0
  /\ out = <<[stream |-> "stderr", kind |-> "usage", text |-> <<"Usage: ", "users">>]>>
  /\ ClientUntouched

\* Call c is waiting for the answer to a request it has sent.
Waiting(c) == Started(c) /\ ~Settled(c)

\* A fetch of call c settles in this step: resolved with a response, or
\* rejected.
FetchSettles(c) == resp'[c] # resp[c] /\ resp'[c].net \in {"resolved", "rejected"}

\* C24: with a remote service that eventually answers every request, every
\* call that was started eventually completes, and it has sent at most two
\* requests; and a waiting call goes on or completes in no step but one in which
\* a fetch of its own settles, so a request that is never answered keeps its call
\* waiting forever.
C24_CompletesIffAnswered ==
  /\ \A c \in Calls : Started(c) ~> Settled(c)
  /\ [](\A c \in Calls : Len(log[c]) <= 2)
  /\ [][\A c \in Calls :
          Waiting(c) /\ <<pc[c], result[c], log[c]>>' # <<pc[c], result[c], log[c]>> =>
            FetchSettles(c)]_vars

\* A call that re-authenticated has completed with the answer to its second
\* request.
C24_Witness ==
  \E c \in Calls :
    /\ Settled(c)
    /\ KindsSent(c) = <<"token", "resource">>
    /\ Answered(c, "resource")
    /\ Returned(c).kind = "ok"

====
